---- MODULE Spec2Model ----
(***************************************************************************)
(* Model of the AI-Trading backend: the risk & setup calculator            *)
(* (ai/risk_manager.py), the symbol metadata the MT5 connector hands out   *)
(* (mt5/connector.py), the result of the live analysis (ai/genius_ai.py)   *)
(* and the backtest simulator (ai/backtester.py, api/routes/backtest.py),  *)
(* the composite scorer and the extractor stage of the analysis            *)
(* (ai/genius_ai.py, ai/multi_timeframe.py) and the indicators             *)
(* (ai/rsi_calculator.py, ai/macd_calculator.py, ai/ma_calculator.py),     *)
(* the background scanner (ai/auto_scanner.py), the order blocks            *)
(* (ai/smart_money.py) and the volume profile (ai/volume_analysis.py).      *)
(*                                                                         *)
(* Units.  Prices are integers in units of 0.00001 (the 5 decimals that    *)
(* get_optimal_setup rounds to).  Lot sizes are integers in units of       *)
(* 0.001 lot.  Risk percentages are integers in units of 0.01 percent.     *)
(* Arithmetic is exact; where Python rounds a value that sits on a tie     *)
(* (round(x, 5), round(x, 2)) the direction depends on the binary          *)
(* representation of the float, and the model takes either neighbour.      *)
(***************************************************************************)
EXTENDS Integers, Sequences, FiniteSets, TLC

VARIABLES
    request,        \* risk calculator: the arguments of the call
    setup,          \* risk calculator: the value get_optimal_setup returned
    config,         \* backtest: the request's parameters and the Backtester's fields
    input,          \* backtest: the stored candles and the connector's symbol info
    candle,         \* backtest: the candle of the iteration just executed
    live,           \* what the live terminal showed the run during that iteration
    run,            \* backtest: the locals of run_backtest and the Backtest row
    live2,          \* what the live terminal showed the second run
    run2,           \* a second run of the same backtest on the same series
    call,           \* analysis: the function called and its arguments
    result,         \* analysis: the value the call returned
    scanner,        \* auto scanner: its fields and where its scan stands
    telegram,       \* auto scanner: the signals Telegram has accepted
    now             \* auto scanner: the calendar day of datetime.now()

vars == <<request, setup, config, input, candle, live, run, live2, run2, call, result, scanner, telegram, now>>

scanVars == <<scanner, telegram, now>>

callVars == <<call, result>>

riskVars == <<request, setup>>

backtestVars == <<config, input, candle, live, run, live2, run2>>

\* Python's None and an optional value: the empty set, or the set of the value
None == {}

Some(x) == {x}

Val(o) == CHOOSE x \in o : TRUE

----------------------------------------------------------------------------
(* Python helpers *)

Abs(x) == IF x < 0 THEN -x ELSE x

Min(a, b) == IF a <= b THEN a ELSE b

Max(a, b) == IF a >= b THEN a ELSE b

\* dict.get(key, default)
Get(d, key, default) == IF key \in DOMAIN d THEN d[key] ELSE default

\* math.floor(a / b) for b > 0
FloorDiv(a, b) == a \div b

RECURSIVE GCD(_, _)
GCD(a, b) == IF b = 0 THEN a ELSE GCD(b, a % b)

\* round(x) of the rational num/den (den > 0) to the nearest integer; on an
\* exact tie the float's binary representation decides: tieUp is that choice
RoundDiv(num, den, tieUp) ==
    LET q == num \div den
        r == num % den
    IN  IF 2 * r < den THEN q
        ELSE IF 2 * r > den THEN q + 1
        ELSE IF tieUp THEN q + 1 ELSE q

----------------------------------------------------------------------------
(* mt5/connector.py : symbol metadata *)

Symbols == {"EURUSD", "USDJPY", "XAUUSD", "US30"}

\* "JPY" in symbol
HasJPY(symbol) == symbol \in {"USDJPY"}

\* "XAU" in symbol or "XAG" in symbol
HasMetal(symbol) == symbol \in {"XAUUSD"}

\* any(idx in symbol for idx in ["US30", "US500", "US100", "DE30", "UK100"])
HasIndex(symbol) == symbol \in {"US30"}

\* the broker's point of each symbol (symbol_info.point), in price units
PointOf(symbol) ==
    IF HasJPY(symbol) THEN 100
    ELSE IF HasMetal(symbol) THEN 1000
    ELSE IF HasIndex(symbol) THEN 1000
    ELSE 1

\* the volume limits a broker publishes for a symbol (mt5.symbol_info):
\* minimum, maximum and step, in 0.001 lot
VolumeSpecs ==
    { [volume_min |-> 10,   volume_max |-> 100000, volume_step |-> 10],
      [volume_min |-> 100,  volume_max |-> 50000,  volume_step |-> 100],
      [volume_min |-> 1000, volume_max |-> 5000,   volume_step |-> 1000] }

\* mt5.symbol_info(symbol): the terminal's record of the symbol
Mt5SymbolInfo(symbol, vol) ==
    [ name                |-> symbol,
      point               |-> PointOf(symbol),
      trade_tick_size     |-> PointOf(symbol),
      trade_tick_value    |-> 1,
      trade_contract_size |-> 100000,
      volume_min          |-> vol.volume_min,
      volume_max          |-> vol.volume_max,
      volume_step         |-> vol.volume_step ]

\* MT5Connector._symbol_info_to_dict: the keys of the dictionary it builds
symbol_info_to_dict(si) ==
    [ name                |-> si.name,
      point               |-> si.point,
      trade_tick_size     |-> si.trade_tick_size,
      trade_tick_value    |-> si.trade_tick_value,
      trade_contract_size |-> si.trade_contract_size,
      volume_min          |-> si.volume_min,
      volume_max          |-> si.volume_max,
      volume_step         |-> si.volume_step ]

----------------------------------------------------------------------------
(* ai/risk_manager.py *)

\* RISK_LEVELS: risk in 0.01 percent, rr_min doubled (2.0 -> 4, 1.5 -> 3)
RISK_LEVELS ==
    [ conservative |-> [risk |-> 50,  rr2 |-> 4, confidence_min |-> 80],
      moderate     |-> [risk |-> 100, rr2 |-> 3, confidence_min |-> 70],
      aggressive   |-> [risk |-> 200, rr2 |-> 2, confidence_min |-> 60] ]

\* MAX_RISK_PERCENT = 5.0, in 0.01 percent
MAX_RISK_PERCENT == 500

\* self.RISK_LEVELS.get(level, self.RISK_LEVELS["moderate"])
RiskLevelSettings(level) == Get(RISK_LEVELS, level, RISK_LEVELS["moderate"])

\* explicit percentage supplied: risk_percentage is not None and > 0
HasExplicitRisk(risk_percentage) ==
    risk_percentage # None /\ Val(risk_percentage) > 0

\* risk_settings of get_optimal_setup: {"rr_min": 1.5} under an explicit
\* percentage, else the level's settings
RiskSettings(level, risk_percentage) ==
    IF HasExplicitRisk(risk_percentage)
    THEN [rr2 |-> 3]
    ELSE RiskLevelSettings(level)

\* a risk_multiplier that ignores the confidence
RiskMultiplierFlat(confidence) == 10

\* risk_multiplier by confidence, in tenths
RiskMultiplier10(confidence) ==
    IF confidence >= 90 THEN 12
    ELSE IF confidence >= 80 THEN 10
    ELSE IF confidence >= 70 THEN 8
    ELSE 5

\* risk_percent of get_optimal_setup, in 0.01 percent
EffectiveRisk(level, risk_percentage, confidence) ==
    IF HasExplicitRisk(risk_percentage)
    THEN Val(risk_percentage)
    ELSE (RiskLevelSettings(level).risk * RiskMultiplier10(confidence)) \div 10

\* pip_size of get_optimal_setup, in price units
PipSizeRM(symbol) ==
    IF HasJPY(symbol) THEN 1000
    ELSE IF HasMetal(symbol) THEN 10000
    ELSE IF HasIndex(symbol) THEN 100000
    ELSE 10

\* default_sl_pips of get_optimal_setup
DefaultSlPips(symbol) ==
    IF HasJPY(symbol) THEN 50
    ELSE IF HasMetal(symbol) THEN 300
    ELSE IF HasIndex(symbol) THEN 100
    ELSE 30

\* Python truthiness of an optional price: `level and ...`
Truthy(level) == level # None /\ Val(level) # 0

\* the stop-loss block of get_optimal_setup without its re-validation and
\* without the side test on the level
StopLossUnchecked(symbol, direction, entry, support, resistance) ==
    IF direction = "BUY"
    THEN IF Truthy(support)
         THEN Val(support) - PipSizeRM(symbol) * 10
         ELSE entry - DefaultSlPips(symbol) * PipSizeRM(symbol)
    ELSE IF Truthy(resistance)
         THEN Val(resistance) + PipSizeRM(symbol) * 10
         ELSE entry + DefaultSlPips(symbol) * PipSizeRM(symbol)

\* the stop-loss block of get_optimal_setup
StopLoss(symbol, direction, entry, support, resistance) ==
    LET pip == PipSizeRM(symbol)
        dflt == DefaultSlPips(symbol) * pip
    IN  IF direction = "BUY"
        THEN LET valid_support ==
                     IF Truthy(support) /\ Val(support) < entry
                     THEN support ELSE None
                 sl == IF Truthy(valid_support)
                       THEN Val(valid_support) - pip * 10
                       ELSE entry - dflt
             IN  IF sl >= entry THEN entry - dflt ELSE sl
        ELSE LET valid_resistance ==
                     IF Truthy(resistance) /\ Val(resistance) > entry
                     THEN resistance ELSE None
                 sl == IF Truthy(valid_resistance)
                       THEN Val(valid_resistance) + pip * 10
                       ELSE entry + dflt
             IN  IF sl <= entry THEN entry + dflt ELSE sl

\* whether the take-profit block of get_optimal_setup replaces the R:R target
\* by the level in front of it (resistance for BUY, support for SELL)
Tightened(direction, entry, sl, rr2, support, resistance) ==
    LET risk == Abs(entry - sl)
    IN  IF direction = "BUY"
        THEN /\ Truthy(resistance) /\ Val(resistance) > entry
             /\ 2 * Val(resistance) < 2 * entry + risk * rr2
             /\ risk > 0 /\ Val(resistance) - entry >= risk
        ELSE /\ Truthy(support) /\ Val(support) < entry
             /\ 2 * Val(support) > 2 * entry - risk * rr2
             /\ risk > 0 /\ entry - Val(support) >= risk

\* the take-profit block of get_optimal_setup; the result is doubled (the
\* R:R target entry + risk * 1.5 may fall on half a price unit)
TakeProfit2(symbol, direction, entry, sl, rr2, support, resistance) ==
    LET pip == PipSizeRM(symbol)
        risk == Abs(entry - sl)
    IN  IF direction = "BUY"
        THEN LET target == 2 * entry + risk * rr2
                 tp == IF Tightened(direction, entry, sl, rr2, support, resistance)
                       THEN 2 * (Val(resistance) - pip * 5)
                       ELSE target
             IN  IF tp <= 2 * entry THEN target ELSE tp
        ELSE LET target == 2 * entry - risk * rr2
                 tp == IF Tightened(direction, entry, sl, rr2, support, resistance)
                       THEN 2 * (Val(support) + pip * 5)
                       ELSE target
             IN  IF tp >= 2 * entry THEN target ELSE tp

\* RiskManager._calculate_position_size_with_capital.  account and
\* symbol_info are what the connector returns (None when it has none);
\* the result is an error, a raised ZeroDivisionError, or the sizing record
calculate_position_size_with_capital(account, symbol_info, entry, stop_loss, risk_percent, custom_balance, tieUp) ==
    IF account = None THEN [kind |-> "error", error |-> "account"]
    ELSE IF symbol_info = None THEN [kind |-> "error", error |-> "symbol"]
    ELSE
    LET info == Val(symbol_info)
        balance == IF custom_balance # None /\ Val(custom_balance) > 0
                   THEN Val(custom_balance) ELSE Get(Val(account), "balance", 0)
        risk == Min(risk_percent, MAX_RISK_PERCENT)
        sl_distance == Abs(entry - stop_loss)
        point == Get(info, "point", 1)
        contract_size == Get(info, "contract_size", 100000)
        tick_value == Get(info, "tick_value", 1)
        tick_size == Get(info, "tick_size", point)
        lot_step == Get(info, "lot_step", 10)
        min_lot == Get(info, "lot_min", 10)
        max_lot_limit == Get(info, "lot_max", 100000)
        \* lot_size / lot_step as the fraction num / den:
        \*   lot = balance * risk% / (sl_points * pip_value_per_lot)
        \*   sl_points = sl_distance / point
        \*   pip_value_per_lot = tick_value / tick_size * point, or
        \*                       contract_size * point
        usesTick == tick_value # 0 /\ tick_size # 0
        g == IF usesTick THEN GCD(tick_size, sl_distance) ELSE 1
        num == IF usesTick
               THEN balance * risk * (tick_size \div g)
               ELSE balance * risk * 10
        den == IF usesTick
               THEN 10 * lot_step * (sl_distance \div g) * tick_value
               ELSE lot_step * sl_distance * (contract_size \div 1000)
        sized == sl_distance > 0 /\ point > 0 /\ den > 0
        floored == IF sized
                   THEN FloorDiv(num, den) * lot_step
                   ELSE FloorDiv(10, lot_step) * lot_step
        clamped == Max(min_lot, Min(floored, max_lot_limit))
        lot_size == RoundDiv(clamped, 10, tieUp) * 10
    IN  IF balance = 0 THEN [kind |-> "raise", error |-> "ZeroDivisionError"]
        ELSE [kind |-> "ok", lot_size |-> lot_size, account_balance |-> balance,
              risk_percent_capped |-> risk]

\* the arguments of a call and the connector's answers during it
Request(s, d, e, sup, res, lvl, rp, c, cap, acc, si) ==
    [ symbol |-> s, direction |-> d, entry |-> e,
      support |-> sup, resistance |-> res,
      risk_level |-> lvl, risk_percentage |-> rp, confidence |-> c,
      custom_capital |-> cap, account |-> acc, symbol_info |-> si ]

\* the dictionary get_optimal_setup returns, from the stop-loss sl, the
\* doubled take-profit tp2 and the sizing pos_size it computed
setup_record(r, sl, tp2, rr2, risk_percent, pos_size, tieUp) ==
    IF pos_size.kind = "raise" THEN pos_size
    ELSE [ kind        |-> "setup",
           symbol      |-> r.symbol,
           direction   |-> r.direction,
           entry       |-> r.entry,
           stop_loss   |-> sl,
           take_profit |-> RoundDiv(tp2, 2, tieUp),
           lot_size    |-> IF pos_size.kind = "ok" THEN pos_size.lot_size ELSE 10,
           sized       |-> pos_size.kind = "ok",
           position_details |-> pos_size,
           tightened   |-> Tightened(r.direction, r.entry, sl, rr2, r.support, r.resistance),
           rr2         |-> rr2,
           confidence_adjusted_risk |-> risk_percent ]

\* get_optimal_setup from the stop-loss on: take-profit, sizing, result
setup_from_stop(r, sl, rr2, risk_percent, balance, tieUp) ==
    setup_record(r, sl,
        TakeProfit2(r.symbol, r.direction, r.entry, sl, rr2, r.support, r.resistance),
        rr2, risk_percent,
        calculate_position_size_with_capital(r.account, r.symbol_info, r.entry, sl, risk_percent, Some(balance), tieUp),
        tieUp)

\* RiskManager.get_optimal_setup.  r is the call: its arguments and what the
\* connector answers during it
get_optimal_setup(r, tieUp) ==
    IF r.account = None THEN [kind |-> "error", error |-> "account"]
    ELSE setup_from_stop(r,
            StopLoss(r.symbol, r.direction, r.entry, r.support, r.resistance),
            RiskSettings(r.risk_level, r.risk_percentage).rr2,
            EffectiveRisk(r.risk_level, r.risk_percentage, r.confidence),
            IF r.custom_capital # None /\ Val(r.custom_capital) > 0
            THEN Val(r.custom_capital) ELSE Get(Val(r.account), "balance", 0),
            tieUp)

----------------------------------------------------------------------------
(* Calls of the risk calculator *)

\* bound: support and resistance lie up to MaxOff grid steps from the entry
MaxOff == 4

\* the entry price used for each symbol
EntryOf(symbol) ==
    IF HasJPY(symbol) THEN 15000000
    ELSE IF HasMetal(symbol) THEN 200000000
    ELSE IF HasIndex(symbol) THEN 100000000
    ELSE 110000

\* optional support / resistance levels around the entry: none, zero, and a
\* grid of 6 pips on both sides of the entry (the entry itself included)
LevelsAround(symbol) ==
    {None, Some(0)} \cup
    { Some(EntryOf(symbol) + k * 6 * PipSizeRM(symbol)) : k \in -MaxOff..MaxOff }

\* what connector.get_account_info() may answer
Accounts ==
    { None,
      Some([balance |-> 10000, equity |-> 10000, leverage |-> 100]),
      Some([balance |-> 0, equity |-> 0, leverage |-> 100]) }

\* what connector.get_symbol_info(symbol) may answer
SymbolInfos(symbol) ==
    {None} \cup
    { Some(symbol_info_to_dict(Mt5SymbolInfo(symbol, vol))) : vol \in VolumeSpecs }

DefaultAccount == Some([balance |-> 10000, equity |-> 10000, leverage |-> 100])

DefaultInfo(symbol) ==
    Some(symbol_info_to_dict(Mt5SymbolInfo(symbol,
        [volume_min |-> 10, volume_max |-> 100000, volume_step |-> 10])))

RiskLevelNames == {"conservative", "moderate", "aggressive"}

\* calls that vary the price levels
LevelRequest(r) ==
    \E s \in Symbols, d \in {"BUY", "SELL"} :
    \E sup \in LevelsAround(s), res \in LevelsAround(s) :
    \E lvl \in RiskLevelNames, rp \in {None, Some(200)} :
        r = Request(s, d, EntryOf(s), sup, res, lvl, rp, 75, None,
                    DefaultAccount, DefaultInfo(s))

\* calls that vary the account, the capital, the risk and the symbol metadata
SizingRequest(r) ==
    \E s \in Symbols, d \in {"BUY", "SELL"} :
    \E lvl \in RiskLevelNames \cup {"unknown"} :
    \E rp \in {None, Some(0), Some(200), Some(700)} :
    \E c \in {65, 75, 85, 95} :
    \E cap \in {None, Some(0), Some(500), Some(1000000)} :
    \E acc \in Accounts, si \in SymbolInfos(s) :
        r = Request(s, d, EntryOf(s), None, None, lvl, rp, c, cap, acc, si)

----------------------------------------------------------------------------
(* ai/genius_ai.py : GeniusAI.analyze, as far as the backtester reads it *)

\* The live terminal as analyze() sees it through the connector:
\*   has_data   connector.get_candles(symbol, timeframe, 200) gave >= 50 candles
\*   signal     what _calculate_signal made of those live candles: None, or
\*              the direction and confidence
\*   price      the live mid price (bid + ask) / 2
\*   support, resistance   sr_detector.detect(live candles), first levels
\*   account    connector.get_account_info()
LiveSnapshot(has, sig, price, sup, res, acc) ==
    [ has_data |-> has, signal |-> sig, price |-> price,
      support |-> sup, resistance |-> res, account |-> acc ]

\* the result of analyze() once the signal sig has its setup st
analysis_result(sig, st) ==
    IF st.kind = "raise"
    THEN [status |-> "RAISED", signal |-> sig, setup |-> None]
    ELSE IF st.kind = "error"
    THEN [status |-> "ERROR", signal |-> sig, setup |-> None]
    ELSE [status |-> "READY", signal |-> sig, setup |-> Some(st)]

\* GeniusAI.analyze(symbol, timeframe, risk_level): it receives no candles
\* and reads everything from the live terminal
analyze(symbol, risk_level, symbol_info, lv, tieUp) ==
    IF ~lv.has_data
    THEN [status |-> "ERROR", signal |-> None, setup |-> None]
    ELSE IF lv.signal = None
    THEN [status |-> "NO_SIGNAL", signal |-> None, setup |-> None]
    ELSE analysis_result(lv.signal,
            get_optimal_setup(
                Request(symbol, Val(lv.signal).direction, lv.price, lv.support,
                        lv.resistance, risk_level, None, Val(lv.signal).confidence,
                        None, lv.account, symbol_info), tieUp))

----------------------------------------------------------------------------
(* ai/genius_ai.py : GeniusAI._calculate_signal, the composite scorer *)

(* Category percentages are integers in units of 1/290 percent (the       *)
(* technical category is tech_bull / 145 * 100, the multi-timeframe        *)
(* alignment has one decimal, a pattern average may end on .5).  The       *)
(* weights are twentieths and the session multiplier 1.15 / 1.0 / 0.7 is   *)
(* 23 / 20 / 14 twentieths, so a weighted score is an integer in units of  *)
(* 1/116000.                                                               *)

\* one percent, as a category percentage
Pct == 290

\* one score point, as a weighted score
ScorePoint == 116000

\* int(x * 0.7) as Python computes it for the integers 0..145: the float
\* product 90 * 0.7 is 62.99999999999999
IntTimes07(x) == IF x = 90 THEN 62 ELSE (7 * x) \div 10

\* the technical points of one side ("BULLISH" or "BEARISH") from RSI,
\* MACD, EMA and divergence
BasePoints(tech, side) ==
    LET bull == side = "BULLISH"
        rsi == IF tech.rsi.status = "OVERSOLD" THEN (IF bull THEN 25 ELSE 0)
               ELSE IF tech.rsi.status = "OVERBOUGHT" THEN (IF bull THEN 0 ELSE 25)
               ELSE IF tech.rsi.value > 55 THEN (IF bull THEN 8 ELSE 0)
               ELSE IF tech.rsi.value < 45 THEN (IF bull THEN 0 ELSE 8)
               ELSE 0
        macd == IF tech.macd.crossover = "BULLISH_CROSS" THEN (IF bull THEN 25 ELSE 0)
                ELSE IF tech.macd.crossover = "BEARISH_CROSS" THEN (IF bull THEN 0 ELSE 25)
                ELSE IF tech.macd.status = "BULLISH" THEN (IF bull THEN 12 ELSE 0)
                ELSE (IF bull THEN 0 ELSE 12)
        ema == IF tech.ema.trend = side THEN 25 ELSE 0
        div == IF tech.divergence = side THEN 25 ELSE 0
    IN  rsi + macd + ema + div

\* the points the advanced indicators add to one side (adv is truthy)
AdvancedPoints(adv, side) ==
    LET bull == side = "BULLISH"
        stoch == IF adv.stochastic = None THEN 0
                 ELSE IF Val(adv.stochastic).crossover = "BULLISH_CROSS" THEN (IF bull THEN 15 ELSE 0)
                 ELSE IF Val(adv.stochastic).crossover = "BEARISH_CROSS" THEN (IF bull THEN 0 ELSE 15)
                 ELSE IF Val(adv.stochastic).status = "OVERSOLD" THEN (IF bull THEN 10 ELSE 0)
                 ELSE IF Val(adv.stochastic).status = "OVERBOUGHT" THEN (IF bull THEN 0 ELSE 10)
                 ELSE 0
        bb == IF adv.bollinger_bands = None THEN 0
              ELSE IF Val(adv.bollinger_bands).position = "BELOW_LOWER" THEN (IF bull THEN 15 ELSE 0)
              ELSE IF Val(adv.bollinger_bands).position = "ABOVE_UPPER" THEN (IF bull THEN 0 ELSE 15)
              ELSE 0
        adx == IF adv.adx = None THEN 0
               ELSE IF Val(adv.adx).adx > 25 /\ Val(adv.adx).direction = side THEN 15
               ELSE 0
    IN  stoch + bb + adx

\* ADX below 15: both sides are cut to int(points * 0.7)
WeakTrend(adv) == adv.adx # None /\ Val(adv.adx).adx <= 25 /\ Val(adv.adx).adx < 15

\* Category 1, tech_bull_pct / tech_bear_pct
TechPct(tech, adv, side) ==
    IF adv = None
    THEN Min(100 * Pct, BasePoints(tech, side) * Pct)
    ELSE LET points == BasePoints(tech, side) + AdvancedPoints(Val(adv), side)
             cut == IF WeakTrend(Val(adv)) THEN IntTimes07(points) ELSE points
         IN  Min(100 * Pct, cut * 200)

\* Category 2, mtf_bull_pct / mtf_bear_pct from the stored multi-timeframe
\* entry; alignment_score is in tenths
MtfPct(mtf, side) ==
    IF mtf = None THEN 0
    ELSE IF Val(mtf).trend_direction = side
    THEN Min(100 * Pct, Val(mtf).alignment_score * (Pct \div 10))
    ELSE IF Val(mtf).trend_direction = "MIXED" THEN 30 * Pct
    ELSE 0

RECURSIVE SumSeq(_)
SumSeq(q) == IF q = <<>> THEN 0 ELSE q[1] + SumSeq(Tail(q))

\* Category 3, pat_bull_pct / pat_bear_pct: the mean strength, at most 100
PatternPct(patterns, side) ==
    IF patterns = None THEN 0
    ELSE LET found == IF side = "BULLISH" THEN Val(patterns).bullish ELSE Val(patterns).bearish
         IN  IF found = <<>> THEN 0
             ELSE Min(100 * Pct, (SumSeq(found) * Pct) \div Len(found))

\* the least distance of the levels from the price, levels non-empty
NearestDistance(levels, price) ==
    CHOOSE d \in { Abs(x - price) : x \in levels } :
        \A x \in levels : d <= Abs(x - price)

\* Category 4, sr_bull_pct / sr_bear_pct: 85 when the nearest level of the
\* side (support for bullish, resistance for bearish) is within 0.3 percent
\* of tech["ema"]["current_price"], else the neutral 50
SrPct(tech, side) ==
    LET current_price == Get(tech.ema, "current_price", 0)
        levels == IF side = "BULLISH" THEN tech.support_resistance.support
                  ELSE tech.support_resistance.resistance
    IN  IF current_price > 0 /\ levels # {}
           /\ NearestDistance(levels, current_price) * 1000 < 3 * current_price
        THEN 85 * Pct
        ELSE 50 * Pct

\* Category 5, session_multiplier in twentieths
SessionMultiplier20(session) ==
    IF session = None THEN 20
    ELSE IF Val(session).quality = "HIGH" THEN 23
    ELSE IF Val(session).quality = "LOW" THEN 14
    ELSE 20

\* Categories 6 and 7: the side's entry of the extractor's score, zero
\* without a score (smart money) or the neutral dflt (volume)
ScoredPct(analysis, side, dflt) ==
    IF analysis = None THEN dflt * Pct
    ELSE IF Val(analysis).score = None THEN dflt * Pct
    ELSE IF side = "BULLISH" THEN Val(Val(analysis).score).bullish * Pct
    ELSE Val(Val(analysis).score).bearish * Pct

\* bullish_score / bearish_score after weighting and the session multiplier
WeightedScore(tech, patterns, mtf, session, adv, smc, vol, side) ==
    ( 5 * MtfPct(mtf, side)
    + 4 * TechPct(tech, adv, side)
    + 3 * ScoredPct(smc, side, 0)
    + 3 * PatternPct(patterns, side)
    + 2 * ScoredPct(vol, side, 50)
    + 2 * SrPct(tech, side) ) * SessionMultiplier20(session)

\* the thresholds without the minimum difference of the two scores
signal_without_min_diff(bullish_score, bearish_score, tieUp) ==
    IF bullish_score > bearish_score /\ bullish_score >= 45 * ScorePoint
    THEN Some([ direction     |-> "BUY",
                confidence    |-> RoundDiv(Min(95 * ScorePoint, bullish_score), ScorePoint \div 10, tieUp),
                bullish_score |-> RoundDiv(bullish_score, ScorePoint \div 10, tieUp),
                bearish_score |-> RoundDiv(bearish_score, ScorePoint \div 10, tieUp) ])
    ELSE IF bearish_score > bullish_score /\ bearish_score >= 45 * ScorePoint
    THEN Some([ direction     |-> "SELL",
                confidence    |-> RoundDiv(Min(95 * ScorePoint, bearish_score), ScorePoint \div 10, tieUp),
                bullish_score |-> RoundDiv(bullish_score, ScorePoint \div 10, tieUp),
                bearish_score |-> RoundDiv(bearish_score, ScorePoint \div 10, tieUp) ])
    ELSE None

\* the thresholds and the dictionary _calculate_signal returns; scores and
\* confidence are rounded to one decimal (tenths)
signal_from_scores(bullish_score, bearish_score, tieUp) ==
    IF /\ bullish_score > bearish_score
       /\ bullish_score >= 45 * ScorePoint
       /\ Abs(bullish_score - bearish_score) >= 10 * ScorePoint
    THEN Some([ direction     |-> "BUY",
                confidence    |-> RoundDiv(Min(95 * ScorePoint, bullish_score), ScorePoint \div 10, tieUp),
                bullish_score |-> RoundDiv(bullish_score, ScorePoint \div 10, tieUp),
                bearish_score |-> RoundDiv(bearish_score, ScorePoint \div 10, tieUp) ])
    ELSE IF /\ bearish_score > bullish_score
            /\ bearish_score >= 45 * ScorePoint
            /\ Abs(bullish_score - bearish_score) >= 10 * ScorePoint
    THEN Some([ direction     |-> "SELL",
                confidence    |-> RoundDiv(Min(95 * ScorePoint, bearish_score), ScorePoint \div 10, tieUp),
                bullish_score |-> RoundDiv(bullish_score, ScorePoint \div 10, tieUp),
                bearish_score |-> RoundDiv(bearish_score, ScorePoint \div 10, tieUp) ])
    ELSE None

\* GeniusAI._calculate_signal
calculate_signal(tech, patterns, mtf, session, adv, smc, vol, tieUp) ==
    signal_from_scores(
        WeightedScore(tech, patterns, mtf, session, adv, smc, vol, "BULLISH"),
        WeightedScore(tech, patterns, mtf, session, adv, smc, vol, "BEARISH"),
        tieUp)

----------------------------------------------------------------------------
(* ai/backtester.py *)

\* self.min_candles
min_candles == 100

\* pip_size of run_backtest, in price units
PipSizeBT(symbol) ==
    IF HasJPY(symbol) THEN 1000
    ELSE IF HasMetal(symbol) THEN 10000
    ELSE 10

\* what _generate_signal makes of the analysis
signal_of(analysis, current_candle) ==
    IF analysis.status = "RAISED" THEN None
    ELSE IF analysis.signal = None THEN None
    ELSE IF Val(analysis.signal).confidence < 70 THEN None
    ELSE IF analysis.setup = None THEN None
    ELSE Some([ direction   |-> Val(analysis.signal).direction,
                confidence  |-> Val(analysis.signal).confidence,
                entry       |-> current_candle.close,
                stop_loss   |-> Val(analysis.setup).stop_loss,
                take_profit |-> Val(analysis.setup).take_profit,
                lot_size    |-> Val(analysis.setup).lot_size ])

\* Backtester._generate_signal; candles is filtered_candles[:i+1], of which
\* only the length is read
generate_signal(strategy, symbol, risk_level, symbol_info, ncandles, current_candle, lv, tieUp) ==
    IF ncandles < 50 THEN None
    ELSE IF strategy # "GENIUS_AI" THEN None
    ELSE signal_of(analyze(symbol, risk_level, symbol_info, lv, tieUp), current_candle)

\* bound: when the server's clock is set back (end of daylight saving time)
\* it is set back by ClockBack candle periods
ClockBack == 4

\* datetime.fromtimestamp: the naive local time of the server for the epoch
\* time t (both in candle periods).  input.fall_back is the first candle after
\* the server's clock was set back; a server on UTC has none
fromtimestamp(t) ==
    IF t < Get(input, "fall_back", 0) THEN t + ClockBack ELSE t

\* Backtester._open_position
open_position_of(signal, cndl, slippage_pips, spread_pips, pip_size) ==
    [ direction   |-> signal.direction,
      lot_size    |-> signal.lot_size,
      entry_price |-> IF signal.direction = "BUY"
                      THEN signal.entry + spread_pips * pip_size
                                        + slippage_pips * pip_size
                      ELSE signal.entry - spread_pips * pip_size
                                        - slippage_pips * pip_size,
      stop_loss   |-> signal.stop_loss,
      take_profit |-> signal.take_profit,
      entry_time  |-> fromtimestamp(cndl.time) ]

\* Backtester._close_position.  pnl is in 0.001 of the account currency:
\* (exit - entry) * lot_size * trade_tick_value / trade_tick_size
close_position(position, cndl, exit_reason, symbol_info, pip_size, exit_price) ==
    LET price == IF exit_price = None THEN cndl.close ELSE Val(exit_price)
        tick_value == Get(symbol_info, "trade_tick_value", 1)
        tick_size == Get(symbol_info, "trade_tick_size", pip_size)
        move == IF position.direction = "BUY"
                THEN price - position.entry_price
                ELSE position.entry_price - price
        gain == (Abs(move) * position.lot_size * tick_value) \div tick_size
    IN  [ direction   |-> position.direction,
          lot_size    |-> position.lot_size,
          entry_price |-> position.entry_price,
          exit_price  |-> price,
          stop_loss   |-> position.stop_loss,
          take_profit |-> position.take_profit,
          pnl         |-> IF move < 0 THEN -gain ELSE gain,
          entry_time  |-> position.entry_time,
          exit_time   |-> fromtimestamp(cndl.time),
          exit_reason |-> exit_reason ]

\* _check_exit with the take-profit tested before the stop-loss
exit_decision_tp_first(position, cndl, slippage_pips, pip_size) ==
    IF position.direction = "BUY"
    THEN IF cndl.high >= position.take_profit
         THEN [reason |-> "TP_HIT",
               price |-> Some(position.take_profit - slippage_pips * pip_size)]
         ELSE IF cndl.low <= position.stop_loss
         THEN [reason |-> "SL_HIT",
               price |-> Some(position.stop_loss + slippage_pips * pip_size)]
         ELSE [reason |-> "NONE", price |-> None]
    ELSE IF cndl.low <= position.take_profit
         THEN [reason |-> "TP_HIT",
               price |-> Some(position.take_profit + slippage_pips * pip_size)]
         ELSE IF cndl.high >= position.stop_loss
         THEN [reason |-> "SL_HIT",
               price |-> Some(position.stop_loss - slippage_pips * pip_size)]
         ELSE [reason |-> "NONE", price |-> None]

\* the exit_reason and exit_price that _check_exit decides on
exit_decision(position, cndl, slippage_pips, pip_size) ==
    IF position.direction = "BUY"
    THEN IF cndl.low <= position.stop_loss
         THEN [reason |-> "SL_HIT",
               price |-> Some(position.stop_loss + slippage_pips * pip_size)]
         ELSE IF cndl.high >= position.take_profit
         THEN [reason |-> "TP_HIT",
               price |-> Some(position.take_profit - slippage_pips * pip_size)]
         ELSE [reason |-> "NONE", price |-> None]
    ELSE IF cndl.high >= position.stop_loss
         THEN [reason |-> "SL_HIT",
               price |-> Some(position.stop_loss - slippage_pips * pip_size)]
         ELSE IF cndl.low <= position.take_profit
         THEN [reason |-> "TP_HIT",
               price |-> Some(position.take_profit + slippage_pips * pip_size)]
         ELSE [reason |-> "NONE", price |-> None]

\* the trade _check_exit returns for the decision d, or None
exit_trade(position, cndl, symbol_info, pip_size, d) ==
    IF d.reason = "NONE" THEN None
    ELSE Some(close_position(position, cndl, d.reason, symbol_info, pip_size, d.price))

\* Backtester._check_exit: the closed trade, or None
check_exit(position, cndl, symbol_info, slippage_pips, pip_size) ==
    exit_trade(position, cndl, symbol_info, pip_size,
               exit_decision(position, cndl, slippage_pips, pip_size))

\* the locals of run_backtest (i, open_position, trades, balance), where it
\* stands (pc; broke: the loop was left by its break), what it returned
\* (result) and the status column of its Backtest row
NoPosition == [direction |-> "NONE"]

NewRun ==
    [ pc |-> "pending", status |-> "PENDING", result |-> "none", i |-> 0,
      open_position |-> NoPosition, trades |-> <<>>, balance |-> 0,
      broke |-> FALSE ]

\* the except branch of run_backtest: status ERROR, {"error": ...} returned
raised(rs) == [rs EXCEPT !.pc = "done", !.status = "ERROR", !.result = "error"]

\* an early `return {"error": ...}` of run_backtest
returned_error(rs) == [rs EXCEPT !.pc = "done", !.result = "error"]

\* run_backtest up to the simulation loop (steps 1 and 2)
start_run(rs, cfg, inp, cb_raises) ==
    LET running == [rs EXCEPT !.status = "RUNNING"]
    IN  IF cfg.has_progress /\ cb_raises THEN raised(running)
        ELSE IF inp.n_loaded = 0 \/ inp.n_loaded < min_candles
        THEN returned_error(running)
        ELSE IF inp.n < min_candles THEN returned_error(running)
        ELSE IF inp.symbol_info = None THEN returned_error(running)
        ELSE [running EXCEPT !.pc = "loop", !.balance = cfg.initial_capital]

\* the loop body after _check_exit without the break on the safety cap
after_exit_uncapped(rs, cfg, ex) ==
    IF ex = None THEN [rs EXCEPT !.i = rs.i + 1]
    ELSE [rs EXCEPT !.balance = rs.balance + Val(ex).pnl,
                    !.trades = Append(rs.trades, Val(ex)),
                    !.open_position = NoPosition,
                    !.i = rs.i + 1]

\* the loop body after _check_exit returned ex
after_exit(rs, cfg, ex) ==
    IF ex = None THEN [rs EXCEPT !.i = rs.i + 1]
    ELSE IF Len(rs.trades) + 1 >= cfg.max_trades
    THEN [rs EXCEPT !.balance = rs.balance + Val(ex).pnl,
                    !.trades = Append(rs.trades, Val(ex)),
                    !.open_position = NoPosition,
                    !.broke = TRUE]
    ELSE [rs EXCEPT !.balance = rs.balance + Val(ex).pnl,
                    !.trades = Append(rs.trades, Val(ex)),
                    !.open_position = NoPosition,
                    !.i = rs.i + 1]

\* the part of one loop iteration that runs while a position is open
exit_step(rs, cfg, inp, cndl) ==
    after_exit(rs, cfg,
        check_exit(rs.open_position, cndl, Val(inp.symbol_info), cfg.slippage_pips, PipSizeBT(cfg.symbol)))

\* the loop body after _generate_signal returned signal
after_signal(rs, cfg, cndl, signal) ==
    IF signal = None THEN [rs EXCEPT !.i = rs.i + 1]
    ELSE [rs EXCEPT !.i = rs.i + 1,
                    !.open_position =
                        open_position_of(Val(signal), cndl, cfg.slippage_pips, cfg.spread_pips, PipSizeBT(cfg.symbol))]

\* the exit check run once more on the candle that opened the position
exit_if_opened(opened, rs, cfg, inp, cndl) ==
    IF opened.open_position = NoPosition THEN opened
    ELSE exit_step([opened EXCEPT !.i = rs.i], cfg, inp, cndl)

\* an iteration without open position that checks a position it opens for
\* its exit on the same candle
signal_step_exiting(rs, cfg, inp, cndl, lv, tieUp) ==
    exit_if_opened(
        after_signal(rs, cfg, cndl,
            generate_signal(cfg.strategy, cfg.symbol, cfg.risk_level, inp.symbol_info, rs.i + 1, cndl, lv, tieUp)),
        rs, cfg, inp, cndl)

\* the part of one loop iteration that runs while no position is open
signal_step(rs, cfg, inp, cndl, lv, tieUp) ==
    after_signal(rs, cfg, cndl,
        generate_signal(cfg.strategy, cfg.symbol, cfg.risk_level, inp.symbol_info, rs.i + 1, cndl, lv, tieUp))

\* an iteration that looks for a signal also while a position stays open
iterate_pyramiding(rs, cfg, inp, cndl, lv, cb_raises, tieUp) ==
    IF cfg.has_progress /\ rs.i % 50 = 0 /\ cb_raises THEN raised(rs)
    ELSE IF rs.open_position # NoPosition
            /\ check_exit(rs.open_position, cndl, Val(inp.symbol_info), cfg.slippage_pips, PipSizeBT(cfg.symbol)) # None
    THEN exit_step(rs, cfg, inp, cndl)
    ELSE signal_step(rs, cfg, inp, cndl, lv, tieUp)

\* one iteration of the simulation loop of run_backtest (step 3) on candle
\* cndl = filtered_candles[rs.i]
iterate(rs, cfg, inp, cndl, lv, cb_raises, tieUp) ==
    IF cfg.has_progress /\ rs.i % 50 = 0 /\ cb_raises THEN raised(rs)
    ELSE IF rs.open_position # NoPosition THEN exit_step(rs, cfg, inp, cndl)
    ELSE signal_step(rs, cfg, inp, cndl, lv, tieUp)

RECURSIVE WinCount(_)
WinCount(trades) ==
    IF trades = <<>> THEN 0
    ELSE (IF trades[1].pnl > 0 THEN 1 ELSE 0) + WinCount(Tail(trades))

\* win_rate of _calculate_metrics, in 0.01 percent, rounded down;
\* _empty_metrics gives 0 for a run without trades
win_rate(trades) ==
    IF trades = <<>> THEN 0 ELSE (WinCount(trades) * 10000) \div Len(trades)

\* step 4 of run_backtest: the remaining position closed into trade;
\* open_position itself is left as it is, the run ends here
timeout_closed(rs, trade) ==
    [rs EXCEPT !.balance = rs.balance + trade.pnl,
               !.trades = Append(rs.trades, trade)]

\* steps 5 to 7 of run_backtest and its return
finished(rs, outcome) ==
    IF outcome = "ok"
    THEN [rs EXCEPT !.pc = "done", !.status = "COMPLETED", !.result = "success"]
    ELSE raised(rs)

\* run_backtest after the loop without step 4
finish_run_without_timeout(rs, cfg, inp, last_candle, outcome) == finished(rs, outcome)

\* run_backtest after the loop (steps 4 to 7).  outcome: "ok", or where an
\* exception is raised: "raise_early" in the progress callback or in
\* _store_trades, "raise_late" in the last progress callback, after
\* _update_backtest_results has written COMPLETED
finish_run(rs, cfg, inp, last_candle, outcome) ==
    finished(
        IF rs.open_position # NoPosition
        THEN timeout_closed(rs, close_position(rs.open_position, last_candle, "TIMEOUT", Val(inp.symbol_info), PipSizeBT(cfg.symbol), None))
        ELSE rs,
        outcome)

----------------------------------------------------------------------------
(* The inputs and the environment of a backtest run *)

\* bound: the configured safety cap self.max_trades ranges over 1..MaxCap
MaxCap == 2

\* bound: the last ActiveWindow candles of the series move and the live
\* terminal offers signals during them; before, the series is flat and the
\* live terminal quiet
ActiveWindow == 3

\* the candle at index i (its time is i candle periods), by its shape
Candle(symbol, i, shape) ==
    LET b == EntryOf(symbol)
        pip == PipSizeBT(symbol)
        lo == IF shape \in {"down", "wide"} THEN b - 120 * pip ELSE b - 2 * pip
        hi == IF shape \in {"up", "wide"} THEN b + 120 * pip ELSE b + 2 * pip
        cl == IF shape = "up" THEN b + 110 * pip
              ELSE IF shape = "down" THEN b - 110 * pip ELSE b
    IN  [time |-> i, open |-> b, high |-> hi, low |-> lo, close |-> cl]

NoCandle == [time |-> -1, open |-> 0, high |-> 0, low |-> 0, close |-> 0]

Quiet(symbol) == LiveSnapshot(TRUE, None, EntryOf(symbol), None, None, DefaultAccount)

\* what the live terminal may show while a candle is simulated
LiveFeed(symbol) ==
    LET b == EntryOf(symbol)
        pip == PipSizeRM(symbol)
    IN  { Quiet(symbol),
          LiveSnapshot(TRUE, Some([direction |-> "BUY", confidence |-> 75]), b, None, None, DefaultAccount),
          LiveSnapshot(TRUE, Some([direction |-> "SELL", confidence |-> 75]), b, None, None, DefaultAccount),
          LiveSnapshot(TRUE, Some([direction |-> "BUY", confidence |-> 65]), b, None, None, DefaultAccount),
          LiveSnapshot(TRUE, Some([direction |-> "SELL", confidence |-> 85]), b + 200 * pip, None, None, DefaultAccount),
          LiveSnapshot(TRUE, Some([direction |-> "BUY", confidence |-> 85]), b, None, None, None),
          LiveSnapshot(FALSE, None, b, None, None, DefaultAccount) }

Active(i) == i >= input.n - ActiveWindow

\* the candle at index i of a strictly rising series: every candle opens
\* at its low, closes at its high 8 pips above, and lies 10 pips above the
\* candle before; the last ActiveWindow candles lie above the entry price
RisingCandle(symbol, i, n) ==
    [ time  |-> i,
      open  |-> EntryOf(symbol) + (25 + 10 * (i - (n - ActiveWindow))) * PipSizeBT(symbol),
      high  |-> EntryOf(symbol) + (33 + 10 * (i - (n - ActiveWindow))) * PipSizeBT(symbol),
      low   |-> EntryOf(symbol) + (25 + 10 * (i - (n - ActiveWindow))) * PipSizeBT(symbol),
      close |-> EntryOf(symbol) + (33 + 10 * (i - (n - ActiveWindow))) * PipSizeBT(symbol) ]

\* the candles the stored series may hold at index i
CandlesAt(i) ==
    IF Get(input, "series", "any") = "rising"
    THEN { RisingCandle(config.symbol, i, input.n) }
    ELSE IF Active(i)
    THEN { Candle(config.symbol, i, sh) : sh \in {"flat", "up", "down", "wide"} }
    ELSE { Candle(config.symbol, i, "flat") }

LiveAt(i) == IF Active(i) THEN LiveFeed(config.symbol) ELSE {Quiet(config.symbol)}

NoRequest == [symbol |-> "none"]

NoSetup == [kind |-> "none"]

NoConfig == [symbol |-> "none"]

NoInput == [n |-> 0]

NoLive == [has_data |-> FALSE]

NoCall == [fn |-> "none"]

NoResult == [kind |-> "none"]

NoScanner == [pc |-> -1]

NoTelegram == [last |-> None]

\* the auto scanner has not been started
ScannerOff == scanner = NoScanner /\ telegram = NoTelegram /\ now = 0

----------------------------------------------------------------------------
(* SpecRisk: calls of the risk calculator *)

InitRisk ==
    /\ ScannerOff
    /\ (LevelRequest(request) \/ SizingRequest(request))
    /\ setup = NoSetup
    /\ config = NoConfig /\ input = NoInput /\ candle = NoCandle
    /\ live = NoLive /\ live2 = NoLive /\ run = NewRun /\ run2 = NewRun
    /\ call = NoCall /\ result = NoResult

\* one call of risk_manager.get_optimal_setup with the arguments of request
GetOptimalSetupCall ==
    /\ setup = NoSetup
    /\ request # NoRequest
    /\ \E tieUp \in BOOLEAN : setup' = get_optimal_setup(request, tieUp)
    /\ UNCHANGED <<scanVars, request, backtestVars, callVars>>

NextRisk == GetOptimalSetupCall

SpecRisk == InitRisk /\ [][NextRisk]_vars

----------------------------------------------------------------------------
(* Spec: one backtest run, POST /api/backtest/run and its background task *)

\* the requests: BacktestRequest with its defaults (1 pip of slippage, 1 pip
\* of spread, capital 10000), the Backtester's cap, and whether a progress
\* callback is handed in
Configs ==
    { [ symbol |-> s, strategy |-> st, risk_level |-> "moderate",
        slippage_pips |-> 1, spread_pips |-> 1, max_trades |-> mt,
        has_progress |-> hp, initial_capital |-> 10000000 ] :
      s \in {"EURUSD"}, st \in {"GENIUS_AI", "AI"},
      mt \in 1..MaxCap, hp \in BOOLEAN }

\* the stored series (n_loaded candles; 0: none stored), the part of it in
\* the date range (n candles) and the connector's symbol info
InputsOf(symbol) ==
    { [n_loaded |-> l, n |-> n, symbol_info |-> si] :
      l \in {0, min_candles},
      n \in {min_candles - 1, min_candles},
      si \in {None, DefaultInfo(symbol)} }

Init ==
    /\ ScannerOff
    /\ request = NoRequest /\ setup = NoSetup
    /\ config \in Configs
    /\ input \in InputsOf(config.symbol)
    /\ candle = NoCandle
    /\ live = NoLive /\ live2 = NoLive
    /\ run = NewRun /\ run2 = NewRun
    /\ call = NoCall /\ result = NoResult

\* run_backtest_bg starts run_backtest: status RUNNING, candles loaded and
\* filtered, symbol info fetched
RunStart ==
    /\ run.pc = "pending"
    /\ \E cb_raises \in BOOLEAN : run' = start_run(run, config, input, cb_raises)
    /\ UNCHANGED <<scanVars, callVars, riskVars, config, input, candle, live, live2, run2>>

InLoop(rs) == rs.pc = "loop" /\ ~rs.broke /\ rs.i < input.n

\* an iteration whose progress callback raises
CandleProgressRaises ==
    /\ InLoop(run) /\ config.has_progress /\ run.i % 50 = 0
    /\ \E c \in CandlesAt(run.i) :
        /\ candle' = c /\ live' = NoLive
        /\ run' = iterate(run, config, input, c, NoLive, TRUE, FALSE)
    /\ UNCHANGED <<scanVars, callVars, riskVars, config, input, live2, run2>>

\* an iteration that closes the open position on SL or TP (the live terminal
\* is not read while a position is open)
CandleExit ==
    /\ InLoop(run) /\ run.open_position # NoPosition
    /\ \E c \in CandlesAt(run.i) :
        /\ check_exit(run.open_position, c, Val(input.symbol_info), config.slippage_pips, PipSizeBT(config.symbol)) # None
        /\ candle' = c /\ live' = NoLive
        /\ run' = iterate(run, config, input, c, NoLive, FALSE, FALSE)
    /\ UNCHANGED <<scanVars, callVars, riskVars, config, input, live2, run2>>

\* an iteration that leaves the open position open, whatever the live
\* terminal shows meanwhile
CandleHold ==
    /\ InLoop(run) /\ run.open_position # NoPosition
    /\ \E c \in CandlesAt(run.i), lv \in LiveAt(run.i), tieUp \in BOOLEAN :
        /\ check_exit(run.open_position, c, Val(input.symbol_info), config.slippage_pips, PipSizeBT(config.symbol)) = None
        /\ candle' = c /\ live' = NoLive
        /\ run' = iterate(run, config, input, c, lv, FALSE, tieUp)
    /\ UNCHANGED <<scanVars, callVars, riskVars, config, input, live2, run2>>

\* an iteration without open position that opens one
CandleOpen ==
    /\ InLoop(run) /\ run.open_position = NoPosition
    /\ \E c \in CandlesAt(run.i), lv \in LiveAt(run.i), tieUp \in BOOLEAN :
        /\ generate_signal(config.strategy, config.symbol, config.risk_level, input.symbol_info, run.i + 1, c, lv, tieUp) # None
        /\ candle' = c /\ live' = lv
        /\ run' = iterate(run, config, input, c, lv, FALSE, tieUp)
    /\ UNCHANGED <<scanVars, callVars, riskVars, config, input, live2, run2>>

\* an iteration without open position that opens none
CandleSkip ==
    /\ InLoop(run) /\ run.open_position = NoPosition
    /\ \E c \in CandlesAt(run.i), lv \in LiveAt(run.i), tieUp \in BOOLEAN :
        /\ generate_signal(config.strategy, config.symbol, config.risk_level, input.symbol_info, run.i + 1, c, lv, tieUp) = None
        /\ candle' = c /\ live' = lv
        /\ run' = iterate(run, config, input, c, lv, FALSE, tieUp)
    /\ UNCHANGED <<scanVars, callVars, riskVars, config, input, live2, run2>>

\* the loop is over (series exhausted, or break on the safety cap): steps 4
\* to 7 of run_backtest
RunFinish ==
    /\ run.pc = "loop" /\ (run.broke \/ run.i = input.n)
    /\ \E outcome \in {"ok", "raise_early"} \cup (IF config.has_progress THEN {"raise_late"} ELSE {}) :
        run' = finish_run(run, config, input, candle, outcome)
    /\ UNCHANGED <<scanVars, callVars, riskVars, config, input, candle, live, live2, run2>>

Next ==
    \/ RunStart
    \/ CandleProgressRaises
    \/ CandleExit
    \/ CandleHold
    \/ CandleOpen
    \/ CandleSkip
    \/ RunFinish

Spec == Init /\ [][Next]_vars

----------------------------------------------------------------------------
(* SpecRising: backtests over a strictly rising series *)

\* the requests with a fixed risk of 2 percent and the risk level whose
\* minimum R:R is 2.0
RisingConfigs ==
    { [ symbol |-> s, strategy |-> st, risk_level |-> "conservative",
        risk_percentage |-> Some(200),
        slippage_pips |-> 1, spread_pips |-> 1, max_trades |-> mt,
        has_progress |-> hp, initial_capital |-> 10000000 ] :
      s \in {"EURUSD"}, st \in {"GENIUS_AI", "AI"},
      mt \in 1..MaxCap, hp \in BOOLEAN }

RisingInputsOf(symbol) ==
    { [n_loaded |-> l, n |-> n, symbol_info |-> si, series |-> "rising"] :
      l \in {0, min_candles},
      n \in {min_candles - 1, min_candles},
      si \in {None, DefaultInfo(symbol)} }

InitRising ==
    /\ ScannerOff
    /\ request = NoRequest /\ setup = NoSetup
    /\ config \in RisingConfigs
    /\ input \in RisingInputsOf(config.symbol)
    /\ candle = NoCandle
    /\ live = NoLive /\ live2 = NoLive
    /\ run = NewRun /\ run2 = NewRun
    /\ call = NoCall /\ result = NoResult

SpecRising == InitRising /\ [][Next]_vars

----------------------------------------------------------------------------
(* SpecClock: one backtest run on a server whose local clock is set back
   while the series lasts *)

\* the series in the date range, with the index of the first candle after
\* the clock was set back
ClockInputsOf(symbol) ==
    { [n_loaded |-> min_candles, n |-> min_candles,
       symbol_info |-> DefaultInfo(symbol), fall_back |-> f] :
      f \in {min_candles - 2, min_candles - 1} }

InitClock ==
    /\ ScannerOff
    /\ request = NoRequest /\ setup = NoSetup
    /\ config \in Configs
    /\ input \in ClockInputsOf(config.symbol)
    /\ candle = NoCandle
    /\ live = NoLive /\ live2 = NoLive
    /\ run = NewRun /\ run2 = NewRun
    /\ call = NoCall /\ result = NoResult

SpecClock == InitClock /\ [][Next]_vars

----------------------------------------------------------------------------
(* SpecTwoRuns: the same backtest run twice on the same candle series, each *)
(* run calling the live terminal for itself; neither run meets an exception *)

\* bound: in SpecTwoRuns the last PairWindow candles of the series move
PairWindow == 2

PairActive(i) == i >= input.n - PairWindow

PairCandlesAt(i) ==
    IF PairActive(i)
    THEN { Candle(config.symbol, i, sh) : sh \in {"flat", "up", "down", "wide"} }
    ELSE { Candle(config.symbol, i, "flat") }

\* what the live terminal may show the run rs during iteration i, if the run
\* reads it at all
PairLiveAt(rs, i) ==
    IF InLoop(rs) /\ rs.open_position = NoPosition
    THEN IF PairActive(i) THEN LiveFeed(config.symbol) ELSE {Quiet(config.symbol)}
    ELSE {NoLive}

\* the index both loops stand at (a run that left its loop stays behind)
PairIndex == IF InLoop(run) THEN run.i ELSE run2.i

\* the iteration of run rs on candle c, if rs is still in its loop
pair_iterate(rs, c, lv, tieUp) ==
    IF InLoop(rs) THEN iterate(rs, config, input, c, lv, FALSE, tieUp) ELSE rs

InitTwoRuns ==
    /\ ScannerOff
    /\ request = NoRequest /\ setup = NoSetup
    /\ config \in { c \in Configs : c.strategy = "GENIUS_AI" /\ ~c.has_progress }
    /\ input \in { x \in InputsOf(config.symbol) :
                     x.n_loaded >= min_candles /\ x.n >= min_candles /\ x.symbol_info # None }
    /\ candle = NoCandle
    /\ live = NoLive /\ live2 = NoLive
    /\ run = NewRun /\ run2 = NewRun
    /\ call = NoCall /\ result = NoResult

\* both runs are started on the same request
TwoRunsStart ==
    /\ run.pc = "pending" /\ run2.pc = "pending"
    /\ run' = start_run(run, config, input, FALSE)
    /\ run2' = start_run(run2, config, input, FALSE)
    /\ UNCHANGED <<scanVars, callVars, riskVars, config, input, candle, live, live2>>

\* both runs execute the iteration on the same candle of the series; the
\* rounding of equal values is the same in both
TwoRunsCandle ==
    /\ InLoop(run) \/ InLoop(run2)
    /\ \E c \in PairCandlesAt(PairIndex), tieUp \in BOOLEAN :
       \E lv \in PairLiveAt(run, PairIndex), lv2 \in PairLiveAt(run2, PairIndex) :
        /\ candle' = c /\ live' = lv /\ live2' = lv2
        /\ run' = pair_iterate(run, c, lv, tieUp)
        /\ run2' = pair_iterate(run2, c, lv2, tieUp)
    /\ UNCHANGED <<scanVars, callVars, riskVars, config, input>>

\* both loops are over: steps 4 to 7 in both runs
TwoRunsFinish ==
    /\ run.pc = "loop" /\ run2.pc = "loop"
    /\ ~InLoop(run) /\ ~InLoop(run2)
    /\ run' = finish_run(run, config, input, candle, "ok")
    /\ run2' = finish_run(run2, config, input, candle, "ok")
    /\ UNCHANGED <<scanVars, callVars, riskVars, config, input, candle, live, live2>>

NextTwoRuns ==
    \/ TwoRunsStart
    \/ TwoRunsCandle
    \/ TwoRunsFinish

SpecTwoRuns == InitTwoRuns /\ [][NextTwoRuns]_vars

----------------------------------------------------------------------------
(* SpecConcurrent: two backtest requests whose background tasks run
   concurrently on the one Backtester instance.  run, config, input, candle
   and live belong to the first task; run2, live2 and call (the arguments of
   the second call of run_backtest and the candle it stands at) to the
   second *)

\* bound: in SpecConcurrent the last ConcWindow candles of each series move
ConcWindow == 2

ConcActive(inp, i) == i >= inp.n - ConcWindow

ConcCandlesAt(cfg, inp, i) ==
    IF ConcActive(inp, i)
    THEN { Candle(cfg.symbol, i, sh) : sh \in {"flat", "up", "down"} }
    ELSE { Candle(cfg.symbol, i, "flat") }

\* what the live terminal may show a task during iteration i
ConcLiveAt(cfg, inp, i) ==
    IF ConcActive(inp, i)
    THEN { Quiet(cfg.symbol),
           LiveSnapshot(TRUE, Some([direction |-> "BUY", confidence |-> 75]), EntryOf(cfg.symbol), None, None, DefaultAccount),
           LiveSnapshot(TRUE, Some([direction |-> "SELL", confidence |-> 75]), EntryOf(cfg.symbol), None, None, DefaultAccount) }
    ELSE { Quiet(cfg.symbol) }

\* a call of run_backtest whose balance, trades and open_position were
\* attributes of the shared Backtester instance
shared_locals(mine, other) ==
    IF other.pc = "loop" THEN [mine EXCEPT !.open_position = other.open_position]
    ELSE mine

\* balance, equity, trades and open_position are locals of the call of
\* run_backtest: what a task reads of them is what the task itself wrote,
\* whatever the other task (other) has done meanwhile
own_locals(mine, other) == mine

\* the second request: the same settings for another symbol
PeerCall(cfg) ==
    [ fn |-> "run_backtest",
      config |-> [cfg EXCEPT !.symbol = "USDJPY"],
      input |-> [n_loaded |-> min_candles, n |-> min_candles,
                 symbol_info |-> DefaultInfo("USDJPY")],
      candle |-> NoCandle ]

InLoopOf(rs, inp) == rs.pc = "loop" /\ ~rs.broke /\ rs.i < inp.n

InitConcurrent ==
    /\ ScannerOff
    /\ request = NoRequest /\ setup = NoSetup
    /\ config \in { c \in Configs : c.strategy = "GENIUS_AI" /\ ~c.has_progress /\ c.max_trades = MaxCap }
    /\ input = [n_loaded |-> min_candles, n |-> min_candles,
                symbol_info |-> DefaultInfo(config.symbol)]
    /\ candle = NoCandle
    /\ live = NoLive /\ live2 = NoLive
    /\ run = NewRun /\ run2 = NewRun
    /\ call = PeerCall(config)
    /\ result = NoResult

\* the first task starts run_backtest
FirstStart ==
    /\ run.pc = "pending"
    /\ run' = start_run(run, config, input, FALSE)
    /\ UNCHANGED <<scanVars, callVars, riskVars, config, input, candle, live, live2, run2>>

\* the first task executes one iteration of its loop
FirstCandle ==
    /\ InLoopOf(run, input)
    /\ \E c \in ConcCandlesAt(config, input, run.i), lv \in ConcLiveAt(config, input, run.i), tieUp \in BOOLEAN :
        /\ candle' = c
        /\ run' = iterate(own_locals(run, run2), config, input, c, lv, FALSE, tieUp)
    /\ UNCHANGED <<scanVars, callVars, riskVars, config, input, live, live2, run2>>

\* the first task is past its loop: steps 4 to 7
FirstFinish ==
    /\ run.pc = "loop" /\ ~InLoopOf(run, input)
    /\ run' = finish_run(own_locals(run, run2), config, input, candle, "ok")
    /\ UNCHANGED <<scanVars, callVars, riskVars, config, input, candle, live, live2, run2>>

\* the second task starts run_backtest
SecondStart ==
    /\ run2.pc = "pending"
    /\ run2' = start_run(run2, call.config, call.input, FALSE)
    /\ UNCHANGED <<scanVars, callVars, riskVars, config, input, candle, live, live2, run>>

\* the second task executes one iteration of its loop
SecondCandle ==
    /\ InLoopOf(run2, call.input)
    /\ \E c \in ConcCandlesAt(call.config, call.input, run2.i), lv \in ConcLiveAt(call.config, call.input, run2.i), tieUp \in BOOLEAN :
        /\ call' = [call EXCEPT !.candle = c]
        /\ run2' = iterate(own_locals(run2, run), call.config, call.input, c, lv, FALSE, tieUp)
    /\ UNCHANGED <<scanVars, result, riskVars, config, input, candle, live, live2, run>>

\* the second task is past its loop: steps 4 to 7
SecondFinish ==
    /\ run2.pc = "loop" /\ ~InLoopOf(run2, call.input)
    /\ run2' = finish_run(own_locals(run2, run), call.config, call.input, call.candle, "ok")
    /\ UNCHANGED <<scanVars, callVars, riskVars, config, input, candle, live, live2, run>>

NextConcurrent ==
    \/ FirstStart
    \/ FirstCandle
    \/ FirstFinish
    \/ SecondStart
    \/ SecondCandle
    \/ SecondFinish

SpecConcurrent == InitConcurrent /\ [][NextConcurrent]_vars

----------------------------------------------------------------------------
(* SpecScorer: calls of the composite scorer *)

\* rsi_status of GeniusAI._technical_analysis
RsiStatus(rsi) ==
    IF rsi < 30 THEN "OVERSOLD"
    ELSE IF rsi > 70 THEN "OVERBOUGHT"
    ELSE IF rsi < 40 THEN "BEARISH"
    ELSE IF rsi > 60 THEN "BULLISH"
    ELSE "NEUTRAL"

\* the dictionary _technical_analysis returns, as far as the scorer reads it
\* (its "ema" entry has no current_price key)
TechnicalOf(rsi, macd_status, macd_crossover, ema_trend, divergence) ==
    [ rsi                |-> [value |-> rsi, status |-> RsiStatus(rsi)],
      macd               |-> [status |-> macd_status, crossover |-> macd_crossover],
      ema                |-> [trend |-> ema_trend],
      divergence         |-> divergence,
      support_resistance |-> [support |-> {EntryOf("EURUSD") - 50},
                              resistance |-> {EntryOf("EURUSD") + 50}] ]

\* macd_status and macd_crossover: a cross needs the histogram's sign
MacdReadings ==
    { <<"BULLISH", "BULLISH_CROSS">>, <<"BULLISH", "NONE">>,
      <<"BEARISH", "BEARISH_CROSS">>, <<"BEARISH", "NONE">> }

TechReadings ==
    { TechnicalOf(rsi, m[1], m[2], e, d) :
        rsi \in {20, 42, 50, 58, 80}, m \in MacdReadings,
        e \in {"BULLISH", "BEARISH", "NEUTRAL"}, d \in {"BULLISH", "BEARISH", "NONE"} }

TechNeutral == TechnicalOf(50, "BEARISH", "NONE", "NEUTRAL", "NONE")
TechBullish == TechnicalOf(20, "BULLISH", "BULLISH_CROSS", "BULLISH", "BULLISH")
TechBearish == TechnicalOf(80, "BEARISH", "BEARISH_CROSS", "BEARISH", "BEARISH")

\* what analyze stores when advanced_indicators.analyze raised
AdvancedFailed ==
    [error |-> TRUE, stochastic |-> None, bollinger_bands |-> None, adx |-> None]

AdvancedReadings ==
    {None} \cup
    { Some([error |-> FALSE, stochastic |-> st, bollinger_bands |-> bb, adx |-> ax]) :
        st \in { None, Some([crossover |-> "BULLISH_CROSS", status |-> "NEUTRAL"]),
                 Some([crossover |-> "NONE", status |-> "OVERBOUGHT"]) },
        bb \in { None, Some([position |-> "BELOW_LOWER"]), Some([position |-> "ABOVE_UPPER"]) },
        ax \in { None, Some([adx |-> 30, direction |-> "BULLISH"]),
                 Some([adx |-> 20, direction |-> "BEARISH"]),
                 Some([adx |-> 10, direction |-> "NEUTRAL"]) } }

\* alignment_score is round(max_pct * 100, 1) over three timeframes, in tenths
MtfReadings ==
    { None,
      Some([trend_direction |-> "BULLISH", alignment_score |-> 1000]),
      Some([trend_direction |-> "BULLISH", alignment_score |-> 667]),
      Some([trend_direction |-> "BEARISH", alignment_score |-> 1000]),
      Some([trend_direction |-> "MIXED", alignment_score |-> 333]),
      Some([trend_direction |-> "NEUTRAL", alignment_score |-> 0]) }

\* pattern strengths are 60 .. 90
PatternReadings ==
    { None,
      Some([bullish |-> <<>>, bearish |-> <<>>]),
      Some([bullish |-> <<90>>, bearish |-> <<>>]),
      Some([bullish |-> <<85, 70>>, bearish |-> <<90>>]),
      Some([bullish |-> <<>>, bearish |-> <<90, 60>>]) }

SessionReadings ==
    { None, Some([quality |-> "HIGH"]), Some([quality |-> "MEDIUM"]), Some([quality |-> "LOW"]) }

\* smart-money and volume scores are min(100, ...) per side
ScoreReadings ==
    { None,
      Some([score |-> None]),
      Some([score |-> Some([bullish |-> 100, bearish |-> 0])]),
      Some([score |-> Some([bullish |-> 0, bearish |-> 100])]),
      Some([score |-> Some([bullish |-> 80, bearish |-> 70])]) }

ScorerCall(tech, patterns, mtf, session, adv, smc, vol) ==
    [ fn |-> "_calculate_signal", tech |-> tech, patterns |-> patterns, mtf |-> mtf,
      session |-> session, adv |-> adv, smc |-> smc, vol |-> vol ]

\* the technical category in full while the other extractors returned nothing
TechnicalCall(c) ==
    \E tech \in TechReadings, adv \in AdvancedReadings :
        c = ScorerCall(tech, None, None, None, adv, None, None)

\* the technical category in full while the other categories are bullish
TechnicalCallInTrend(c) ==
    \E tech \in TechReadings, adv \in AdvancedReadings :
        c = ScorerCall(tech, Some([bullish |-> <<90>>, bearish |-> <<>>]),
                       Some([trend_direction |-> "BULLISH", alignment_score |-> 1000]),
                       Some([quality |-> "HIGH"]), adv,
                       Some([score |-> Some([bullish |-> 100, bearish |-> 0])]),
                       Some([score |-> Some([bullish |-> 100, bearish |-> 0])]))

\* the other categories in full with three technical pictures
CategoryCall(c) ==
    \E tech \in {TechNeutral, TechBullish, TechBearish},
       patterns \in PatternReadings, mtf \in MtfReadings, session \in SessionReadings,
       adv \in {None, Some(AdvancedFailed)}, smc \in ScoreReadings, vol \in ScoreReadings :
        c = ScorerCall(tech, patterns, mtf, session, adv, smc, vol)

\* bullish_score / bearish_score of the call
ScoreOf(c, side) ==
    WeightedScore(c.tech, c.patterns, c.mtf, c.session, c.adv, c.smc, c.vol, side)

InitScorer ==
    /\ ScannerOff
    /\ (TechnicalCall(call) \/ TechnicalCallInTrend(call) \/ CategoryCall(call))
    /\ result = NoResult
    /\ request = NoRequest /\ setup = NoSetup
    /\ config = NoConfig /\ input = NoInput /\ candle = NoCandle
    /\ live = NoLive /\ live2 = NoLive /\ run = NewRun /\ run2 = NewRun

\* one call of GeniusAI._calculate_signal with the arguments of call
CalculateSignalCall ==
    /\ call.fn = "_calculate_signal"
    /\ result = NoResult
    /\ \E tieUp \in BOOLEAN :
         result' = [ kind   |-> "signal",
                     signal |-> calculate_signal(call.tech, call.patterns, call.mtf,
                                                 call.session, call.adv, call.smc,
                                                 call.vol, tieUp) ]
    /\ UNCHANGED <<scanVars, call, riskVars, backtestVars>>

NextScorer == CalculateSignalCall

SpecScorer == InitScorer /\ [][NextScorer]_vars

----------------------------------------------------------------------------
(* SpecAnalyze: calls of GeniusAI.analyze, steps 3 to 10 in full *)

\* MultiTimeframeAnalyzer.get_best_entry_time at the UTC hour of the wall clock
get_best_entry_time(hour) ==
    LET active == \/ (hour >= 22 \/ hour < 7)
                  \/ (0 <= hour /\ hour < 9)
                  \/ (8 <= hour /\ hour < 17)
                  \/ (13 <= hour /\ hour < 22)
        best == (8 <= hour /\ hour < 9) \/ (13 <= hour /\ hour < 17)
    IN  [ quality |-> IF best THEN "HIGH" ELSE IF active THEN "MEDIUM" ELSE "LOW" ]

\* what one extractor did: it raised, or it returned value (None: nothing)
Raised == [raised |-> TRUE, value |-> None]

Returned(value) == [raised |-> FALSE, value |-> value]

Extractors ==
    { "patterns", "multi_timeframe", "session", "advanced_indicators",
      "smart_money", "market_structure", "volume" }

\* the outcomes of the seven extractors when the extractor failure.extractor
\* fails in the way failure.how and the others return their healthy values
Outcomes(healthy, failure, hour) ==
    [ e \in Extractors |->
        IF failure.extractor = e
        THEN (IF failure.how = "raised" THEN Raised ELSE Returned(None))
        ELSE IF e = "session" THEN Returned(Some(get_best_entry_time(hour)))
        ELSE Returned(healthy[e]) ]

\* steps 3 to 9 of analyze: result["analysis"] as the scorer reads it.  A
\* pattern or multi-timeframe result of None raises inside the try block;
\* multi-timeframe and session share one try block.
analysis_entries(ex) ==
    [ patterns            |-> IF ex["patterns"].raised THEN None ELSE ex["patterns"].value,
      multi_timeframe     |-> IF \/ ex["multi_timeframe"].raised
                                 \/ ex["multi_timeframe"].value = None
                                 \/ ex["session"].raised
                              THEN None ELSE ex["multi_timeframe"].value,
      session             |-> IF \/ ex["multi_timeframe"].raised
                                 \/ ex["multi_timeframe"].value = None
                                 \/ ex["session"].raised
                              THEN None ELSE ex["session"].value,
      advanced_indicators |-> IF ex["advanced_indicators"].raised THEN Some(AdvancedFailed)
                              ELSE ex["advanced_indicators"].value,
      smart_money         |-> IF ex["smart_money"].raised THEN None ELSE ex["smart_money"].value,
      market_structure    |-> IF ex["market_structure"].raised THEN None
                              ELSE ex["market_structure"].value,
      volume              |-> IF ex["volume"].raised THEN None ELSE ex["volume"].value ]

\* step 10 of analyze: the scorer on the stored entries
analysis_signal(tech, an, tieUp) ==
    calculate_signal(tech, an.patterns, an.multi_timeframe, an.session,
                     an.advanced_indicators, an.smart_money, an.volume, tieUp)

\* the signal as the risk manager reads it: confidence in whole percent
\* (its thresholds are 70, 80, 90)
SignalForSetup(sig) ==
    IF sig = None THEN None
    ELSE Some([direction |-> Val(sig).direction, confidence |-> Val(sig).confidence \div 10])

\* one return of analyze at the given hour
analysis_return(c, hour, an, sig, tieUp) ==
    [ hour     |-> hour,
      analysis |-> an,
      signal   |-> sig,
      outcome  |-> analyze(c.symbol, "moderate", c.symbol_info,
                           LiveSnapshot(TRUE, SignalForSetup(sig), EntryOf(c.symbol),
                                        None, None, DefaultAccount), tieUp) ]

analyze_at(c, hour, an, tieUp) ==
    analysis_return(c, hour, an, analysis_signal(c.tech, an, tieUp), tieUp)

\* the UTC hours at which analyze is called: both sides of a session edge
Hours == {7, 8, 13, 17}

\* how often analyze is called on the same candles
MaxCalls == 2

NoFailure == [extractor |-> "none", how |-> "none"]

Failures ==
    {NoFailure} \cup { [extractor |-> e, how |-> h] : e \in Extractors, h \in {"raised", "nothing"} }

\* what the extractors make of the candles the terminal holds
HealthyReadings ==
    { [ patterns            |-> pt,
        multi_timeframe     |-> mt,
        advanced_indicators |-> ad,
        smart_money         |-> sm,
        market_structure    |-> Some([trend |-> "UPTREND"]),
        volume              |-> vl ] :
        pt \in { Some([bullish |-> <<90>>, bearish |-> <<>>]),
                 Some([bullish |-> <<>>, bearish |-> <<90, 60>>]) },
        mt \in { Some([trend_direction |-> "BULLISH", alignment_score |-> 1000]),
                 Some([trend_direction |-> "BEARISH", alignment_score |-> 667]),
                 Some([trend_direction |-> "MIXED", alignment_score |-> 333]) },
        ad \in { Some([error |-> FALSE,
                       stochastic |-> Some([crossover |-> "BULLISH_CROSS", status |-> "NEUTRAL"]),
                       bollinger_bands |-> Some([position |-> "BELOW_LOWER"]),
                       adx |-> Some([adx |-> 30, direction |-> "BULLISH"])]),
                 Some([error |-> FALSE,
                       stochastic |-> Some([crossover |-> "NONE", status |-> "OVERBOUGHT"]),
                       bollinger_bands |-> Some([position |-> "INSIDE"]),
                       adx |-> Some([adx |-> 10, direction |-> "NEUTRAL"])]) },
        sm \in { Some([score |-> Some([bullish |-> 100, bearish |-> 0])]),
                 Some([score |-> Some([bullish |-> 0, bearish |-> 100])]) },
        vl \in { Some([score |-> Some([bullish |-> 100, bearish |-> 0])]),
                 Some([score |-> Some([bullish |-> 0, bearish |-> 100])]) } }

AnalyzeCallOf(c) ==
    \E tech \in {TechNeutral, TechBullish, TechBearish},
       healthy \in HealthyReadings, failure \in Failures, tieUp \in BOOLEAN :
        c = [ fn |-> "analyze", symbol |-> "EURUSD", symbol_info |-> DefaultInfo("EURUSD"),
              tech |-> tech, healthy |-> healthy, failure |-> failure, tieUp |-> tieUp ]

InitAnalyze ==
    /\ ScannerOff
    /\ AnalyzeCallOf(call)
    /\ result = [kind |-> "analyses", returned |-> <<>>]
    /\ request = NoRequest /\ setup = NoSetup
    /\ config = NoConfig /\ input = NoInput /\ candle = NoCandle
    /\ live = NoLive /\ live2 = NoLive /\ run = NewRun /\ run2 = NewRun

\* one call of GeniusAI.analyze on the candles of call, at the hour the wall
\* clock shows; the same floats round the same way in every call (call.tieUp)
AnalyzeCall ==
    /\ call.fn = "analyze"
    /\ Len(result.returned) < MaxCalls
    /\ \E hour \in Hours :
         result' = [ result EXCEPT !.returned =
                       Append(@, analyze_at(call, hour,
                                  analysis_entries(Outcomes(call.healthy, call.failure, hour)),
                                  call.tieUp)) ]
    /\ UNCHANGED <<scanVars, call, riskVars, backtestVars>>

NextAnalyze == AnalyzeCall

SpecAnalyze == InitAnalyze /\ [][NextAnalyze]_vars

----------------------------------------------------------------------------
(* ai/rsi_calculator.py, ai/macd_calculator.py, ai/ma_calculator.py *)

(* Indicator values are exact rationals <<numerator, denominator>> in      *)
(* lowest terms with a positive denominator; 0.0 is <<0, 1>>.              *)

Rat(n, d) ==
    LET g == GCD(Abs(n), Abs(d))
    IN  IF d < 0 THEN <<(0 - n) \div g, (0 - d) \div g>> ELSE <<n \div g, d \div g>>

RInt(n) == <<n, 1>>

Zero == RInt(0)

\* a + b over the least common denominator
RAdd(a, b) ==
    Rat(a[1] * (b[2] \div GCD(a[2], b[2])) + b[1] * (a[2] \div GCD(a[2], b[2])),
        a[2] * (b[2] \div GCD(a[2], b[2])))

RSub(a, b) == RAdd(a, <<0 - b[1], b[2]>>)

\* a * n / d for integers n, d
RScale(a, n, d) == Rat(a[1] * n, a[2] * d)

\* [0.0] * n
Zeros(n) == [k \in 1 .. n |-> Zero]

\* sum(data[:n])
RECURSIVE SumFirst(_, _)
SumFirst(data, n) == IF n = 0 THEN 0 ELSE data[n] + SumFirst(data, n - 1)

\* RSICalculator.period
RsiPeriod == 14

\* gains / losses of np.diff(closes): entry k is the change into close k + 1
Gains(closes) ==
    [k \in 1 .. Len(closes) - 1 |-> Max(closes[k + 1] - closes[k], 0)]

Losses(closes) ==
    [k \in 1 .. Len(closes) - 1 |-> Max(closes[k] - closes[k + 1], 0)]

\* rsi from the two averages: 100 - 100 / (1 + avg_gain / avg_loss)
RsiOf(avg_gain, avg_loss) ==
    IF avg_loss = Zero THEN RInt(100)
    ELSE Rat(100 * avg_gain[1] * (avg_loss[2] \div GCD(avg_gain[2], avg_loss[2])),
             avg_gain[1] * (avg_loss[2] \div GCD(avg_gain[2], avg_loss[2]))
               + avg_loss[1] * (avg_gain[2] \div GCD(avg_gain[2], avg_loss[2])))

\* Wilder's smoothing: (avg * (period - 1) + current) / period
WilderStep(avg, current) ==
    RScale(RAdd(RScale(avg, RsiPeriod - 1, 1), RInt(current)), 1, RsiPeriod)

\* the loop "for i in range(period, len(closes))", which reads gains[i - 1]:
\* entry i of the 1-based sequences
RECURSIVE WilderFrom(_, _, _, _, _)
WilderFrom(avg_gain, avg_loss, gains, losses, i) ==
    IF i > Len(gains) THEN <<>>
    ELSE <<RsiOf(WilderStep(avg_gain, gains[i]), WilderStep(avg_loss, losses[i]))>>
         \o WilderFrom(WilderStep(avg_gain, gains[i]), WilderStep(avg_loss, losses[i]),
                       gains, losses, i + 1)

\* the RSI values from the first average on
RsiFrom(avg_gain, avg_loss, gains, losses) ==
    <<RsiOf(avg_gain, avg_loss)>> \o WilderFrom(avg_gain, avg_loss, gains, losses, RsiPeriod)

\* RSICalculator.calculate on the closes of the candles
rsi_calculate(closes) ==
    IF Len(closes) < RsiPeriod + 1 THEN Zeros(Len(closes))
    ELSE Zeros(RsiPeriod - 1)
         \o RsiFrom(Rat(SumFirst(Gains(closes), RsiPeriod), RsiPeriod),
                    Rat(SumFirst(Losses(closes), RsiPeriod), RsiPeriod),
                    Gains(closes), Losses(closes))

\* the loop "for i in range(period, len(data))" of both _calculate_ema:
\* (data[i] - ema[i - 1]) * multiplier + ema[i - 1], multiplier 2 / (period + 1)
RECURSIVE EmaFrom(_, _, _, _)
EmaFrom(prev, data, period, k) ==
    IF k > Len(data) THEN <<>>
    ELSE <<RAdd(RScale(RSub(data[k], prev), 2, period + 1), prev)>>
         \o EmaFrom(RAdd(RScale(RSub(data[k], prev), 2, period + 1), prev), data, period, k + 1)

RECURSIVE RSumFirst(_, _)
RSumFirst(data, n) == IF n = 0 THEN Zero ELSE RAdd(data[n], RSumFirst(data, n - 1))

\* the values of an EMA from position period on: the SMA sma of the first
\* period values, then the loop
EmaTail(data, period, sma) == <<sma>> \o EmaFrom(sma, data, period, period + 1)

\* the closes as floats
Floats(closes) == [k \in 1 .. Len(closes) |-> RInt(closes[k])]

\* MACalculator._calculate_ema on closes: 0.0 where there is no value
ma_calculate_ema(closes, period) ==
    IF Len(closes) < period THEN Zeros(Len(closes))
    ELSE Zeros(period - 1)
         \o EmaTail(Floats(closes), period, Rat(SumFirst(closes, period), period))

\* None before position period, then the values of tail
NoneThen(n, period, tail) ==
    [k \in 1 .. n |-> IF k < period THEN None ELSE Some(tail[k - period + 1])]

\* MACDCalculator._calculate_ema on closes: None where there is no value
macd_calculate_ema(closes, period) ==
    IF Len(closes) < period THEN [k \in 1 .. Len(closes) |-> None]
    ELSE NoneThen(Len(closes), period,
                  EmaTail(Floats(closes), period, Rat(SumFirst(closes, period), period)))

\* MACDCalculator._calculate_ema on the MACD line
macd_signal_ema(macd_values, period) ==
    IF Len(macd_values) < period THEN [k \in 1 .. Len(macd_values) |-> None]
    ELSE NoneThen(Len(macd_values), period,
                  EmaTail(macd_values, period, RScale(RSumFirst(macd_values, period), 1, period)))

\* MACDCalculator.fast, slow, signal
MacdFast == 12

MacdSlow == 26

MacdSignal == 9

\* the MACD line: ema_fast - ema_slow, 0.0 where either is None
MacdLine(ema_fast, ema_slow) ==
    [k \in 1 .. Len(ema_fast) |->
        IF ema_fast[k] # None /\ ema_slow[k] # None
        THEN RSub(Val(ema_fast[k]), Val(ema_slow[k])) ELSE Zero]

\* the histogram: macd - signal, 0.0 where the signal is None
Histogram(macd_values, signal_values) ==
    [k \in 1 .. Len(macd_values) |->
        IF signal_values[k] # None THEN RSub(macd_values[k], Val(signal_values[k])) ELSE Zero]

macd_result(macd_values, signal_values) ==
    [ macd |-> macd_values, signal |-> signal_values,
      histogram |-> Histogram(macd_values, signal_values) ]

macd_from_line(macd_values) ==
    macd_result(macd_values, macd_signal_ema(macd_values, MacdSignal))

\* MACDCalculator.calculate on the closes of the candles
macd_calculate(closes) ==
    IF Len(closes) < MacdSlow + 1
    THEN [ macd |-> Zeros(Len(closes)), signal |-> [k \in 1 .. Len(closes) |-> Some(Zero)],
           histogram |-> Zeros(Len(closes)) ]
    ELSE macd_from_line(MacdLine(macd_calculate_ema(closes, MacdFast),
                                 macd_calculate_ema(closes, MacdSlow)))

\* the series of an indicator the readers take the current reading from
indicator(fn, period, closes) ==
    IF fn = "rsi" THEN rsi_calculate(closes)
    ELSE IF fn = "macd" THEN macd_calculate(closes).macd
    ELSE ma_calculate_ema(closes, period)

\* the least window for which the indicator computes a value
MinLookback(fn, period) ==
    IF fn = "rsi" THEN RsiPeriod + 1
    ELSE IF fn = "macd" THEN MacdSlow + 1
    ELSE period

----------------------------------------------------------------------------
(* SpecIndicators: calls of the three indicators *)

\* bound: windows reach up to MaxBeyond candles past the minimum lookback
MaxBeyond == 1

\* closes of n candles: rising, falling or alternating by 10 pips a candle,
\* flat, or flat with a last candle 10 pips higher
Closes(shape, n) ==
    [k \in 1 .. n |->
        EntryOf("EURUSD")
        + (IF shape = "rising" THEN 100 * k
           ELSE IF shape = "falling" THEN 0 - 100 * k
           ELSE IF shape = "zigzag" THEN 100 * (k % 2)
           ELSE IF shape = "jump" /\ k = n THEN 100
           ELSE 0)]

Shapes == {"rising", "falling", "zigzag", "flat", "jump"}

\* the exact MACD of a window that moves before its last candle is outside
\* the integer range: such windows are kept below the lookback
ShapesFor(fn, period, n) ==
    IF fn = "macd" /\ n >= MacdSlow THEN {"flat", "jump"} ELSE Shapes

IndicatorCallOf(c) ==
    \E ind \in { <<"rsi", RsiPeriod>>, <<"macd", MacdSlow>>,
                 <<"ema", 9>>, <<"ema", 21>>, <<"ema", 50>> } :
    \E n \in 0 .. MinLookback(ind[1], ind[2]) + MaxBeyond :
    \E shape \in ShapesFor(ind[1], ind[2], n) :
        c = [fn |-> ind[1], period |-> ind[2], closes |-> Closes(shape, n)]

InitIndicators ==
    /\ ScannerOff
    /\ IndicatorCallOf(call)
    /\ result = NoResult
    /\ request = NoRequest /\ setup = NoSetup
    /\ config = NoConfig /\ input = NoInput /\ candle = NoCandle
    /\ live = NoLive /\ live2 = NoLive /\ run = NewRun /\ run2 = NewRun

\* one call of RSICalculator.calculate, MACDCalculator.calculate or
\* MACalculator._calculate_ema
IndicatorCall ==
    /\ call.fn \in {"rsi", "macd", "ema"}
    /\ result = NoResult
    /\ result' = [kind |-> "indicator", values |-> indicator(call.fn, call.period, call.closes)]
    /\ UNCHANGED <<scanVars, call, riskVars, backtestVars>>

NextIndicators == IndicatorCall

SpecIndicators == InitIndicators /\ [][NextIndicators]_vars

----------------------------------------------------------------------------
(* ai/auto_scanner.py: the background scanner.  Days are numbered; a
   confidence is in percent, an R:R in hundredths, an entry in price units *)

SCAN_PAIRS == <<"EURUSD", "GBPUSD", "USDJPY", "XAUUSD">>

MIN_CONFIDENCE == 80

MIN_RR == 200

MAX_SIGNALS_PER_DAY == 5

EmptyMap == [d \in {} |-> 0]

\* _get_signal_key: the entry rounded to 3 decimals (an entry exactly half
\* way is rounded by the binary value of the float; no such entry is drawn)
get_signal_key(symbol, direction, entry) ==
    <<symbol, direction, RoundDiv(entry, 100, FALSE)>>

\* self._sent_signals[day], without creating the entry
SentOn(sent_signals, day) ==
    IF day \in DOMAIN sent_signals THEN sent_signals[day] ELSE {}

\* self._daily_count[day][symbol], without creating the entry
CountOn(daily_count, day, symbol) ==
    IF day \in DOMAIN daily_count THEN daily_count[day][symbol] ELSE 0

\* the defaultdict(set) after self._sent_signals[today] was read
sent_touched(sent_signals, today) ==
    [d \in DOMAIN sent_signals \cup {today} |-> SentOn(sent_signals, d)]

\* self._daily_count after `if today not in self._daily_count: ...`
count_touched(daily_count, today) ==
    [d \in DOMAIN daily_count \cup {today} |->
        [p \in {SCAN_PAIRS[k] : k \in DOMAIN SCAN_PAIRS} |-> CountOn(daily_count, d, p)]]

\* a scanner that never takes a signal for a duplicate
is_duplicate_never(sc, today, signal_key) == FALSE

\* _is_duplicate
is_duplicate(sc, today, signal_key) == signal_key \in SentOn(sc.sent_signals, today)

\* _can_send_more without the daily limit
can_send_more_unlimited(sc, today, symbol) == TRUE

\* _can_send_more
can_send_more(sc, today, symbol) ==
    CountOn(sc.daily_count, today, symbol) < MAX_SIGNALS_PER_DAY

\* _record_signal
record_signal(sc, today, symbol, signal_key) ==
    [sc EXCEPT
        !.sent_signals = [sent_touched(@, today) EXCEPT ![today] = @ \cup {signal_key}],
        !.daily_count = [count_touched(@, today) EXCEPT ![today][symbol] = @ + 1]]

\* _cleanup_old_data: the days other than today and yesterday are dropped
\* from _sent_signals, and from _daily_count where they are in it
cleanup_old_data(sc, today) ==
    [sc EXCEPT
        !.sent_signals = [d \in {k \in DOMAIN @ : k = today \/ k = today - 1} |-> @[d]],
        !.daily_count = [d \in {k \in DOMAIN @ : k \notin DOMAIN sc.sent_signals \/ k = today \/ k = today - 1} |-> @[d]]]

\* Telegram after it accepted one more message (sendMessage answered ok)
accepted(tg, msg) ==
    [m \in DOMAIN tg \cup {msg} |-> IF m = msg THEN (IF m \in DOMAIN tg THEN tg[m] + 1 ELSE 1) ELSE tg[m]]

\* the end of one pass of the loop over SCAN_PAIRS
next_pair(sc) ==
    [sc EXCEPT !.pc = IF @ = Len(SCAN_PAIRS) THEN 0 ELSE @ + 1]

\* _scan_once from send_signal on: ok is result.get("ok"); the signal reaches
\* Telegram on day d_send and is recorded on day d_rec
send_and_record(sc, tg, symbol, signal_key, ok, d_send, d_rec) ==
    IF ok
    THEN [scanner |-> next_pair(record_signal(sc, d_rec, symbol, signal_key)),
          telegram |-> accepted(tg, [day |-> d_send, key |-> signal_key])]
    ELSE [scanner |-> next_pair(sc), telegram |-> tg]

\* _scan_once from the filters on, for an analysis with signal and setup
filter_and_send(sc, tg, symbol, analysis, ok, d_dup, d_send, d_rec) ==
    IF analysis.confidence < MIN_CONFIDENCE \/ analysis.risk_reward < MIN_RR
    THEN [scanner |-> next_pair(sc), telegram |-> tg]
    ELSE IF is_duplicate(sc, d_dup, get_signal_key(symbol, analysis.direction, analysis.entry))
    THEN [scanner |-> next_pair([sc EXCEPT !.sent_signals = sent_touched(@, d_dup)]), telegram |-> tg]
    ELSE send_and_record([sc EXCEPT !.sent_signals = sent_touched(@, d_dup)], tg, symbol,
                         get_signal_key(symbol, analysis.direction, analysis.entry), ok, d_send, d_rec)

\* one pass of the loop of _scan_once, for symbol; analysis is None where
\* genius_ai.analyze gave no signal or raised
scan_pair(sc, tg, symbol, analysis, ok, d_can, d_dup, d_send, d_rec) ==
    IF ~can_send_more(sc, d_can, symbol) \/ analysis = None
    THEN [scanner |-> next_pair([sc EXCEPT !.daily_count = count_touched(@, d_can)]), telegram |-> tg]
    ELSE filter_and_send([sc EXCEPT !.daily_count = count_touched(@, d_can)], tg, symbol,
                         Val(analysis), ok, d_dup, d_send, d_rec)

----------------------------------------------------------------------------
(* SpecScanner: the scanner's loop, scan after scan, over several days *)

\* bound: the days are 0..MaxDay
MaxDay == 1

\* what the scanner may read from an analysis of symbol: nothing, signals
\* that fail a filter, and for the first pair signals that pass, on either
\* side at four prices, two of which round to the same 3 decimals
ScanAnalyses(symbol) ==
    {None} \cup
    (IF symbol = "EURUSD"
     THEN { Some([confidence |-> 85, risk_reward |-> 200, direction |-> d, entry |-> e]) :
              d \in {"BUY", "SELL"}, e \in {110000, 110040, 110100, 110200} }
          \cup { Some([confidence |-> 75, risk_reward |-> 200, direction |-> "BUY", entry |-> 110300]),
                 Some([confidence |-> 85, risk_reward |-> 150, direction |-> "BUY", entry |-> 110300]) }
     ELSE { Some([confidence |-> 90, risk_reward |-> 150, direction |-> "SELL", entry |-> 125000]) })

InitScanner ==
    /\ request = NoRequest /\ setup = NoSetup
    /\ config = NoConfig /\ input = NoInput /\ candle = NoCandle
    /\ live = NoLive /\ live2 = NoLive /\ run = NewRun /\ run2 = NewRun
    /\ call = NoCall /\ result = NoResult
    /\ scanner = [pc |-> 0, sent_signals |-> EmptyMap, daily_count |-> EmptyMap]
    /\ telegram = EmptyMap
    /\ now = 0

\* _scan_once up to its loop, on a connected terminal with Telegram
\* configured, within the active hours.  Of what Telegram accepted, the days
\* before yesterday are no longer looked at
ScanStart ==
    /\ scanner.pc = 0
    /\ scanner' = [cleanup_old_data(scanner, now) EXCEPT !.pc = 1]
    /\ telegram' = [m \in {x \in DOMAIN telegram : x.day >= now - 1} |-> telegram[m]]
    /\ UNCHANGED <<riskVars, backtestVars, callVars, now>>

\* one pass of the loop of _scan_once; where midnight is "can", "dup",
\* "send" or "record" the day changes during the pass, after that step
ScanPair ==
    /\ scanner.pc \in DOMAIN SCAN_PAIRS
    /\ \E analysis \in ScanAnalyses(SCAN_PAIRS[scanner.pc]), ok \in BOOLEAN,
          midnight \in {"none", "can", "dup", "send"} :
        /\ midnight # "none" => now < MaxDay
        /\ now' = IF midnight = "none" THEN now ELSE now + 1
        /\ \E scanned \in { scan_pair(scanner, telegram, SCAN_PAIRS[scanner.pc], analysis, ok,
                                        now,
                                        IF midnight = "can" THEN now + 1 ELSE now,
                                        IF midnight \in {"can", "dup"} THEN now + 1 ELSE now,
                                        now') } :
            /\ scanner' = scanned.scanner
            /\ telegram' = scanned.telegram
    /\ UNCHANGED <<riskVars, backtestVars, callVars>>

\* midnight passes while the loop of _run_loop sleeps
Midnight ==
    /\ scanner.pc = 0
    /\ now < MaxDay
    /\ now' = now + 1
    /\ UNCHANGED <<riskVars, backtestVars, callVars, scanner, telegram>>

NextScanner ==
    \/ ScanStart
    \/ ScanPair
    \/ Midnight

SpecScanner == InitScanner /\ [][NextScanner]_vars

----------------------------------------------------------------------------
(* ai/smart_money.py: order blocks.  candles is the window, oldest first;
   position p of the sequence is index p - 1 of the list *)

\* self.ob_max_age
ob_max_age == 50

Body(c) == Abs(c.close - c.open)

RECURSIVE SumBodies(_, _, _)
\* the sum of the bodies of candles[a..b]
SumBodies(candles, a, b) ==
    IF a > b THEN 0 ELSE Body(candles[a]) + SumBodies(candles, a + 1, b)

\* the order block that the loop of _detect_order_blocks builds at i = p - 1
\* from the candle before (prev) and the strong candle (curr), given the sum
\* of the n bodies of candles[max(0, i-10):i]
order_block(candles, p, prev, curr, sum, n) ==
    IF sum = 0 \/ ~(Body(curr) * n > sum * 2) THEN None
    ELSE IF prev.close < prev.open /\ curr.close > curr.open
    THEN Some([ type |-> "BULLISH", high |-> prev.high, low |-> prev.low,
                index |-> p - 2, age |-> Len(candles) - p + 1,
                mitigated |-> candles[Len(candles)].close < prev.low,
                strength |-> Min(100, (Body(curr) * n * 30) \div sum) ])
    ELSE IF prev.close > prev.open /\ curr.close < curr.open
    THEN Some([ type |-> "BEARISH", high |-> prev.high, low |-> prev.low,
                index |-> p - 2, age |-> Len(candles) - p + 1,
                mitigated |-> candles[Len(candles)].close > prev.high,
                strength |-> Min(100, (Body(curr) * n * 30) \div sum) ])
    ELSE None

order_block_at(candles, p) ==
    order_block(candles, p, candles[p - 1], candles[p],
                SumBodies(candles, Max(1, p - 10), p - 1), p - Max(1, p - 10))

\* the blocks appended to order_blocks: not too old and not mitigated
appended_blocks(candles) ==
    { Val(order_block_at(candles, p)) :
        p \in { q \in 3 .. Len(candles) - 1 :
                  /\ order_block_at(candles, q) # None
                  /\ Val(order_block_at(candles, q)).age <= ob_max_age
                  /\ ~Val(order_block_at(candles, q)).mitigated } }

\* the sort key (-strength, age)
Before(a, b) ==
    a.strength > b.strength \/ (a.strength = b.strength /\ a.age < b.age)

RECURSIVE sorted_blocks(_)
sorted_blocks(blocks) ==
    IF blocks = {} THEN <<>>
    ELSE LET first == CHOOSE a \in blocks : \A b \in blocks \ {a} : Before(a, b)
         IN  <<first>> \o sorted_blocks(blocks \ {first})

\* SmartMoneyAnalyzer._detect_order_blocks
detect_order_blocks(candles) ==
    SubSeq(sorted_blocks(appended_blocks(candles)), 1,
           Min(5, Cardinality(appended_blocks(candles))))

----------------------------------------------------------------------------
(* SpecOrderBlocks: the order blocks of a window that grows candle by
   candle *)

\* bound: the window grows by up to MaxNew candles
MaxNew == 3

\* a candle that opens at the close before it
CandleFrom(prev_close, shape) ==
    [ open  |-> prev_close,
      close |-> IF shape = "rally" THEN prev_close + 14
                ELSE IF shape = "drop" THEN prev_close - 14
                ELSE IF shape = "dip" THEN prev_close - 1
                ELSE prev_close + 1,
      high  |-> IF shape = "rally" THEN prev_close + 15
                ELSE IF shape = "spike" THEN prev_close + 16
                ELSE prev_close + 2,
      low   |-> IF shape = "drop" THEN prev_close - 15
                ELSE IF shape = "dip" THEN prev_close - 16
                ELSE prev_close - 2 ]

\* a bearish candle followed by a strong bullish move (side = 1), or a
\* bullish candle followed by a strong bearish move (side = -1)
FormedBlock(side) ==
    << [open |-> 1000, close |-> 1000 + 2 * side, high |-> 1003, low |-> 997],
       [open |-> 1000 + 2 * side, close |-> 1000, high |-> 1003, low |-> 997],
       [open |-> 1000, close |-> 1000 + 10 * side, high |-> 1011, low |-> 989] >>

InitOrderBlocks ==
    /\ ScannerOff
    /\ request = NoRequest /\ setup = NoSetup
    /\ config = NoConfig /\ input = NoInput /\ candle = NoCandle
    /\ live = NoLive /\ live2 = NoLive /\ run = NewRun /\ run2 = NewRun
    /\ \E side \in {1, -1} : call = [fn |-> "detect_order_blocks", candles |-> FormedBlock(side)]
    /\ result = NoResult

\* the next candle closes and the analyzer is called on the longer window
DetectOnNextCandle ==
    /\ call.fn = "detect_order_blocks"
    /\ Len(call.candles) < 3 + MaxNew
    /\ \E shape \in {"quiet", "dip", "spike", "drop", "rally"} :
        /\ call' = [call EXCEPT !.candles = Append(@, CandleFrom(@[Len(@)].close, shape))]
        /\ result' = [kind |-> "order_blocks", blocks |-> detect_order_blocks(call'.candles)]
    /\ UNCHANGED <<scanVars, riskVars, backtestVars>>

NextOrderBlocks == DetectOnNextCandle

SpecOrderBlocks == InitOrderBlocks /\ [][NextOrderBlocks]_vars

----------------------------------------------------------------------------
(* ai/volume_analysis.py: the volume profile.  Bins are numbered from 0 as
   in the code; a price of the profile is the centre of a bin, rounded to
   5 decimals *)

num_bins == 30

\* 0.7 of the total volume, in tenths
value_area_tenths == 7

get_volume(c) == Get(c, "tick_volume", Get(c, "volume", 0))

RECURSIVE price_min(_, _)
price_min(candles, n) ==
    IF n = 1 THEN candles[1].low ELSE Min(candles[n].low, price_min(candles, n - 1))

RECURSIVE price_max(_, _)
price_max(candles, n) ==
    IF n = 1 THEN candles[1].high ELSE Max(candles[n].high, price_max(candles, n - 1))

\* min(int((typical - price_min) / bin_size), num_bins - 1) with
\* typical = (high + low + close) / 3 and bin_size = (hi - lo) / num_bins
bin_idx(c, lo, hi) ==
    Min(FloorDiv((c.high + c.low + c.close - 3 * lo) * num_bins, 3 * (hi - lo)), num_bins - 1)

\* bins[bin_idx] += vol for the first n candles
RECURSIVE distributed(_, _, _, _)
distributed(candles, lo, hi, n) ==
    IF n = 0 THEN [b \in 0 .. num_bins - 1 |-> 0]
    ELSE [distributed(candles, lo, hi, n - 1)
             EXCEPT ![bin_idx(candles[n], lo, hi)] = @ + get_volume(candles[n])]

bins_of(candles, lo, hi) == distributed(candles, lo, hi, Len(candles))

\* sum(bins[a .. b])
RECURSIVE bins_sum(_, _, _)
bins_sum(bins, a, b) == IF a > b THEN 0 ELSE bins[a] + bins_sum(bins, a + 1, b)

\* bins.index(max(bins)): the first bin of the highest volume
poc_idx_of(bins) ==
    CHOOSE i \in DOMAIN bins :
        /\ \A j \in DOMAIN bins : bins[j] <= bins[i]
        /\ \A j \in DOMAIN bins : j < i => bins[j] < bins[i]

\* the while loop: one more bin on the side whose next bin holds more volume,
\* the left side on a draw, until the target is reached or no bin is left
RECURSIVE value_area(_, _, _, _, _)
value_area(bins, left, right, cumulative, total_vol) ==
    IF 10 * cumulative < value_area_tenths * total_vol /\ (left > 0 \/ right < num_bins - 1)
    THEN IF (IF left > 0 THEN bins[left - 1] ELSE 0)
                >= (IF right < num_bins - 1 THEN bins[right + 1] ELSE 0)
            /\ left > 0
         THEN value_area(bins, left - 1, right, cumulative + bins[left - 1], total_vol)
         ELSE IF right < num_bins - 1
         THEN value_area(bins, left, right + 1, cumulative + bins[right + 1], total_vol)
         ELSE [left |-> left, right |-> right]
    ELSE [left |-> left, right |-> right]

\* round(price_min + (i + 0.5) * bin_size, 5)
bin_price(lo, hi, i, tieUp) ==
    RoundDiv(2 * num_bins * lo + (2 * i + 1) * (hi - lo), 2 * num_bins, tieUp)

profile_position(current_price, poc, vah, val) ==
    IF current_price > vah THEN "ABOVE_VA"
    ELSE IF current_price < val THEN "BELOW_VA"
    ELSE IF 1000 * Abs(current_price - poc) < 2 * current_price THEN "AT_POC"
    ELSE "INSIDE_VA"

profile_record(current_price, poc, vah, val) ==
    [poc |-> poc, vah |-> vah, val |-> val,
     position |-> profile_position(current_price, poc, vah, val)]

profile_from(candles, lo, hi, bins, poc_idx, va, tieUp) ==
    profile_record(candles[Len(candles)].close,
                   bin_price(lo, hi, poc_idx, tieUp),
                   bin_price(lo, hi, va.right, tieUp),
                   bin_price(lo, hi, va.left, tieUp))

profile_of_bins(candles, lo, hi, bins, poc_idx, total_vol, tieUp) ==
    IF total_vol = 0 THEN None
    ELSE Some(profile_from(candles, lo, hi, bins, poc_idx,
                           value_area(bins, poc_idx, poc_idx, bins[poc_idx], total_vol), tieUp))

profile_in_range(candles, lo, hi, bins, tieUp) ==
    profile_of_bins(candles, lo, hi, bins, poc_idx_of(bins), bins_sum(bins, 0, num_bins - 1), tieUp)

calculate_volume_profile(candles, tieUp) ==
    IF Len(candles) < 10 THEN None
    ELSE IF price_max(candles, Len(candles)) = price_min(candles, Len(candles)) THEN None
    ELSE profile_in_range(candles, price_min(candles, Len(candles)), price_max(candles, Len(candles)),
                          bins_of(candles, price_min(candles, Len(candles)), price_max(candles, Len(candles))),
                          tieUp)

----------------------------------------------------------------------------
(* SpecProfile: the volume profile of a window that grows candle by
   candle.  The window starts with nine candles, too few for a profile:
   one at the bottom and one at the top of a range of 300 points (bins of
   10 points) and seven in the middle of it *)

MaxMore == 3

ProfileCandle(price, vol) ==
    [high |-> price + 3, low |-> price - 3, close |-> price, tick_volume |-> vol]

\* the prices of the seven candles in the middle: all in bin 15, or over
\* the bins 14 to 16
MiddlePrices(base) ==
    IF base = "peaked" THEN <<1155, 1152, 1157, 1155, 1153, 1156, 1155>>
    ELSE <<1145, 1155, 1165, 1155, 1147, 1155, 1163>>

FirstCandles(base) ==
    <<ProfileCandle(1003, 1), ProfileCandle(1297, 1)>>
        \o [k \in 1 .. 7 |-> ProfileCandle(MiddlePrices(base)[k], 1)]

InitProfile ==
    /\ ScannerOff
    /\ request = NoRequest /\ setup = NoSetup
    /\ config = NoConfig /\ input = NoInput /\ candle = NoCandle
    /\ live = NoLive /\ live2 = NoLive /\ run = NewRun /\ run2 = NewRun
    /\ \E base \in {"peaked", "spread"} :
        call = [fn |-> "calculate_volume_profile", candles |-> FirstCandles(base)]
    /\ result = NoResult

\* the next candle closes and the profile of the longer window is computed
ProfileOnNextCandle ==
    /\ call.fn = "calculate_volume_profile"
    /\ Len(call.candles) < 9 + MaxMore
    /\ \E price \in {1135, 1145, 1165, 1175}, vol \in {1, 4}, tieUp \in BOOLEAN :
        /\ call' = [call EXCEPT !.candles = Append(@, ProfileCandle(price, vol))]
        /\ result' = [kind |-> "volume_profile",
                      profile |-> calculate_volume_profile(call'.candles, tieUp)]
    /\ UNCHANGED <<scanVars, riskVars, backtestVars>>

NextProfile == ProfileOnNextCandle

SpecProfile == InitProfile /\ [][NextProfile]_vars

----------------------------------------------------------------------------
(* Properties *)

LastTrade(rs) == rs.trades[Len(rs.trades)]

\* both levels of the position lie inside the candle's low/high range
BothInRange(position, cndl) ==
    /\ cndl.low <= position.stop_loss /\ position.stop_loss <= cndl.high
    /\ cndl.low <= position.take_profit /\ position.take_profit <= cndl.high

\* C1: at most one simulated position is open at every candle index: an
\* iteration puts a new position into open_position only when none is open
\* before it, and the new position is entered on that iteration's candle
NoPyramiding ==
    [][ (run'.open_position # NoPosition /\ run'.open_position # run.open_position)
        => (run.open_position = NoPosition /\ run'.open_position.entry_time = run.i) ]_vars

\* C1 witness: a position opened on an earlier candle has been held across a
\* later candle while the live terminal went on offering signals
HeldAcrossCandle ==
    /\ run.pc = "loop"
    /\ run.open_position # NoPosition
    /\ run.i >= run.open_position.entry_time + 2

\* C2: two runs on the same series that stand at the same index without an
\* open position take the same decision there (both skip, or both open the
\* same position), whatever the live terminal shows either of them
DecisionFromCandlesOnly ==
    [][ (/\ InLoop(run) /\ InLoop(run2)
         /\ run.i = run2.i
         /\ run.open_position = NoPosition /\ run2.open_position = NoPosition)
        => run'.open_position = run2'.open_position ]_vars

\* C3: two runs of the same configuration on the same candle series end with
\* identical lists of Trade Records
SameTradeRecords ==
    (run.pc = "done" /\ run2.pc = "done") => run.trades = run2.trades

\* C4: an iteration on a candle whose range holds both the stop-loss and the
\* take-profit of the open position closes it with exit_reason SL_HIT, for
\* BUY and for SELL
StopLossFirst ==
    [][ (/\ InLoop(run) /\ run.open_position # NoPosition
         /\ run'.pc = "loop" /\ candle'.time = run.i
         /\ BothInRange(run.open_position, candle'))
        => (/\ Len(run'.trades) = Len(run.trades) + 1
            /\ LastTrade(run').exit_reason = "SL_HIT"
            /\ LastTrade(run').direction = run.open_position.direction
            /\ run'.open_position = NoPosition) ]_vars

\* C4 witness: a SELL position has just been closed by a candle that spans
\* both its stop-loss and its take-profit
BothLevelsTouched ==
    /\ run.pc = "loop" /\ Len(run.trades) > 0
    /\ LastTrade(run).exit_time = candle.time
    /\ LastTrade(run).direction = "SELL"
    /\ LastTrade(run).exit_reason = "SL_HIT"
    /\ BothInRange(LastTrade(run), candle)

\* the fill of an SL_HIT or TP_HIT exit is worse for the trader than the
\* level that triggered it, by the slippage
FilledAgainstTrader(trade) ==
    LET level == IF trade.exit_reason = "SL_HIT" THEN trade.stop_loss ELSE trade.take_profit
        slip == config.slippage_pips * PipSizeBT(config.symbol)
    IN  trade.exit_reason \in {"SL_HIT", "TP_HIT"} =>
            IF trade.direction = "BUY"
            THEN trade.exit_price = level - slip
            ELSE trade.exit_price = level + slip

\* C5: every SL_HIT and TP_HIT exit is filled worse than the triggering level
\* by the slippage: lower for a BUY, higher for a SELL
SlippageAgainstTrader ==
    \A k \in 1..Len(run.trades) : FilledAgainstTrader(run.trades[k])

\* C6: at every point of a run and in its final result the number of Trade
\* Records is at most max_trades, the final TIMEOUT close included
TradesWithinCap == Len(run.trades) <= config.max_trades

\* C6 witness: a completed run that left its loop on the safety cap before
\* the series was over, with as many trades as the cap allows
CapReached ==
    /\ run.pc = "done" /\ run.result = "success" /\ run.broke
    /\ run.i < input.n - 1
    /\ Len(run.trades) = config.max_trades

\* C7: a position still open after the last candle of the series is closed
\* into the last Trade Record, at that candle's close, with exit_reason
\* TIMEOUT, so every opened position of a completed run has its record
TimeoutAtLastClose ==
    (run.pc = "done" /\ run.result = "success" /\ run.open_position # NoPosition)
    => /\ candle.time = input.n - 1
       /\ Len(run.trades) > 0
       /\ LastTrade(run).exit_reason = "TIMEOUT"
       /\ LastTrade(run).exit_price = candle.close
       /\ LastTrade(run).exit_time = candle.time
       /\ LastTrade(run).entry_time = run.open_position.entry_time
       /\ LastTrade(run).entry_price = run.open_position.entry_price
       /\ LastTrade(run).direction = run.open_position.direction

\* C7 witness: a completed run whose position, opened before the last
\* candle, outlived the series
ClosedByTimeout ==
    /\ run.pc = "done" /\ run.result = "success"
    /\ run.open_position # NoPosition
    /\ run.open_position.entry_time < input.n - 1
    /\ LastTrade(run).exit_reason = "TIMEOUT"

\* C8: when run_backtest has returned, the run's status is terminal and
\* tells the outcome: ERROR if the run could not proceed, COMPLETED if it
\* simulated the series (with or without trades)
TerminalStatus ==
    run.pc = "done" =>
        /\ run.status \in {"COMPLETED", "ERROR"}
        /\ run.result = "error" => run.status = "ERROR"
        /\ run.result = "success" => run.status = "COMPLETED"

\* C9: every Trade Setup the risk calculator returns has
\* stop_loss < entry < take_profit for a BUY and
\* take_profit < entry < stop_loss for a SELL
SetupOrdered ==
    setup.kind = "setup" =>
        IF setup.direction = "BUY"
        THEN setup.stop_loss < setup.entry /\ setup.entry < setup.take_profit
        ELSE setup.take_profit < setup.entry /\ setup.entry < setup.stop_loss

\* C9 witness: a BUY setup returned although the support handed in lies
\* above the entry
SetupWithSupportAboveEntry ==
    /\ setup.kind = "setup" /\ setup.direction = "BUY"
    /\ request.support # None /\ Val(request.support) > request.entry

\* C10: the lot_size of a sized setup is a multiple of the symbol's own
\* volume step and lies within the symbol's own volume limits
LotWithinSymbolLimits ==
    (setup.kind = "setup" /\ setup.sized) =>
        LET info == Val(request.symbol_info)
        IN  /\ setup.lot_size % info.volume_step = 0
            /\ info.volume_min <= setup.lot_size
            /\ setup.lot_size <= info.volume_max

\* C11: the scorer returns a signal only if the winning side's weighted score
\* is at least 45 and the two scores differ by at least 10; in every other
\* case, all-neutral inputs included, it returns no signal
SignalOnlyAboveThresholds ==
    result.kind = "signal" =>
        LET bull == ScoreOf(call, "BULLISH")
            bear == ScoreOf(call, "BEARISH")
        IN  /\ result.signal # None =>
                /\ Max(bull, bear) >= 45 * ScorePoint
                /\ Abs(bull - bear) >= 10 * ScorePoint
                /\ Val(result.signal).direction = (IF bull > bear THEN "BUY" ELSE "SELL")
            /\ (call.tech = TechNeutral /\ call.patterns = None /\ call.mtf = None
                /\ call.smc = None /\ call.vol = None) => result.signal = None

\* a call whose winning score reaches 45 while the scores differ by less than
\* 10 has returned
CloseScoresRejected ==
    /\ result.kind = "signal"
    /\ Max(ScoreOf(call, "BULLISH"), ScoreOf(call, "BEARISH")) >= 45 * ScorePoint
    /\ Abs(ScoreOf(call, "BULLISH") - ScoreOf(call, "BEARISH")) < 10 * ScorePoint

\* C12: after weighting and the session multiplier the bullish and the
\* bearish score each lie in 0 .. 100
ScoresWithinHundred ==
    result.kind = "signal" =>
        /\ ScoreOf(call, "BULLISH") \in 0 .. 100 * ScorePoint
        /\ ScoreOf(call, "BEARISH") \in 0 .. 100 * ScorePoint
        /\ result.signal # None =>
             /\ Val(result.signal).bullish_score \in 0 .. 1000
             /\ Val(result.signal).bearish_score \in 0 .. 1000

\* the category an extractor feeds
CategoryOf(extractor) ==
    CASE extractor = "patterns" -> "patterns"
      [] extractor = "multi_timeframe" -> "mtf"
      [] extractor = "session" -> "session"
      [] extractor = "advanced_indicators" -> "tech"
      [] extractor = "smart_money" -> "smc"
      [] extractor = "volume" -> "volume"
      [] OTHER -> "none"

\* what one category contributes to the side's score
CategoryScore(tech, an, category, side) ==
    CASE category = "tech" -> TechPct(tech, an.advanced_indicators, side)
      [] category = "mtf" -> MtfPct(an.multi_timeframe, side)
      [] category = "patterns" -> PatternPct(an.patterns, side)
      [] category = "sr" -> SrPct(tech, side)
      [] category = "session" -> SessionMultiplier20(an.session)
      [] category = "smc" -> ScoredPct(an.smart_money, side, 0)
      [] category = "volume" -> ScoredPct(an.volume, side, 50)

\* the entries analyze would store at that hour if no extractor failed
HealthyEntries(hour) ==
    analysis_entries(Outcomes(call.healthy, NoFailure, hour))

\* C13: when one extractor raises or returns nothing, analyze still returns
\* a result, and every category other than that extractor's is scored as it
\* is without the failure
OneFailureOneCategory ==
    result.kind = "analyses" =>
        \A k \in 1 .. Len(result.returned) :
            /\ result.returned[k].outcome.status \in {"NO_SIGNAL", "READY"}
            /\ \A category \in {"tech", "mtf", "patterns", "sr", "session", "smc", "volume"} \
                                 {CategoryOf(call.failure.extractor)} :
                 \A side \in {"BULLISH", "BEARISH"} :
                     CategoryScore(call.tech, result.returned[k].analysis, category, side)
                       = CategoryScore(call.tech, HealthyEntries(result.returned[k].hour), category, side)

\* C14: whenever the take-profit is tightened to the resistance (BUY) or the
\* support (SELL), the realized reward |take_profit - entry| is not below the
\* risk |entry - stop_loss|
TightenedKeepsOneToOne ==
    (setup.kind = "setup" /\ setup.tightened) =>
        Abs(setup.take_profit - setup.entry) >= Abs(setup.entry - setup.stop_loss)

\* the risk percentage the claim's table gives the request, in 0.01 percent
TableRisk(r) ==
    IF HasExplicitRisk(r.risk_percentage) THEN Val(r.risk_percentage)
    ELSE IF r.confidence >= 90 THEN (RiskLevelSettings(r.risk_level).risk * 12) \div 10
    ELSE IF r.confidence >= 80 THEN RiskLevelSettings(r.risk_level).risk
    ELSE IF r.confidence >= 70 THEN (RiskLevelSettings(r.risk_level).risk * 8) \div 10
    ELSE RiskLevelSettings(r.risk_level).risk \div 2

\* C15, as amended: the risk percentage of the setup is the level's base risk
\* times 1.2 / 1.0 / 0.8 / 0.5 by confidence, or the explicit percentage
\* whatever the confidence, and the position is sized with that percentage
\* capped at MAX_RISK_PERCENT
EffectiveRiskByConfidence ==
    setup.kind = "setup" =>
        /\ setup.confidence_adjusted_risk = TableRisk(request)
        /\ setup.sized =>
             setup.position_details.risk_percent_capped
               = Min(TableRisk(request), MAX_RISK_PERCENT)

\* C15 witness: a position sized under an explicit percentage above the cap
SizedAboveCap ==
    /\ setup.kind = "setup" /\ setup.sized
    /\ HasExplicitRisk(request.risk_percentage)
    /\ Val(request.risk_percentage) > MAX_RISK_PERCENT

\* C15 as stated: the percentage the position is sized with is the table's
\* value, the explicit percentage included
EffectiveRiskIsSupplied ==
    (setup.kind = "setup" /\ setup.sized) =>
        setup.position_details.risk_percent_capped = TableRisk(request)

\* C16: when the symbol's metadata is missing, the sizing step fails with an
\* error: get_optimal_setup returns the error and no setup carrying a lot size
MissingMetadataFailsSizing ==
    (setup # NoSetup /\ request.symbol_info = None) =>
        /\ setup.kind = "error"
        /\ "lot_size" \notin DOMAIN setup

\* C17: a request whose capital is not positive is rejected with an error
\* and yields no setup
NonPositiveCapitalRejected ==
    (/\ setup # NoSetup
     /\ request.custom_capital # None
     /\ Val(request.custom_capital) <= 0) => setup.kind = "error"

\* the current readings the indicator gives on the windows that reach its
\* lookback
RealReadings(fn, period) ==
    { indicator(fn, period, Closes(shape, n))[n] :
        shape \in ShapesFor(fn, period, MinLookback(fn, period)),
        n \in MinLookback(fn, period) .. MinLookback(fn, period) + MaxBeyond }

\* C18: on a window shorter than its minimum lookback an indicator returns
\* no value that is also a reading it gives on a sufficient window
ShortWindowNoReading ==
    (result.kind = "indicator" /\ Len(call.closes) < MinLookback(call.fn, call.period)) =>
        \A k \in 1 .. Len(result.values) :
            result.values[k] \notin RealReadings(call.fn, call.period)

\* C19: two calls of analyze on identical candles return the same composite
\* signal (direction, confidence, bullish and bearish score)
SameCandlesSameSignal ==
    (result.kind = "analyses" /\ Len(result.returned) = MaxCalls) =>
        \A j, k \in 1 .. MaxCalls : result.returned[j].signal = result.returned[k].signal

\* C20: a completed backtest over a strictly rising series has no trade
\* closed by its stop-loss, and its win rate is 100 when it has trades
RisingOnlyTakeProfit ==
    (/\ Get(input, "series", "any") = "rising"
     /\ run.pc = "done" /\ run.status = "COMPLETED" /\ run.trades # <<>>) =>
        /\ \A k \in 1 .. Len(run.trades) : run.trades[k].exit_reason # "SL_HIT"
        /\ win_rate(run.trades) = 10000

\* C21: every Trade Record of a run has exit_time >= entry_time, whether it
\* was closed by SL_HIT, TP_HIT or TIMEOUT
ExitNotBeforeEntry ==
    \A k \in 1..Len(run.trades) :
        run.trades[k].exit_time >= run.trades[k].entry_time

\* the request without a progress callback
WithoutProgress(cfg) == [cfg EXCEPT !.has_progress = FALSE]

\* C22: progress reporting is never required for correctness: every step of a
\* run leaves the run's Trade Records, balance and status as the same step of
\* the run without progress callback leaves them, whatever the callback does
ProgressNeverRequired ==
    [][ \/ run' = run
        \/ /\ run.pc = "pending"
           /\ run' = start_run(run, WithoutProgress(config), input, FALSE)
        \/ /\ InLoop(run)
           /\ \E tieUp \in BOOLEAN :
                run' = iterate(run, WithoutProgress(config), input, candle', live', FALSE, tieUp)
        \/ /\ run.pc = "loop" /\ ~InLoop(run)
           /\ \E outcome \in {"ok", "raise_early"} :
                run' = finish_run(run, WithoutProgress(config), input, candle, outcome) ]_vars

\* a step of the task with locals rs (rs_next after the step), request cfg
\* and series inp is a step that task takes when it executes alone
StepAlone(rs, rs_next, cfg, inp, c) ==
    \/ rs_next = rs
    \/ rs.pc = "pending" /\ rs_next = start_run(rs, cfg, inp, FALSE)
    \/ /\ InLoopOf(rs, inp)
       /\ \E lv \in ConcLiveAt(cfg, inp, rs.i), tieUp \in BOOLEAN :
            rs_next = iterate(rs, cfg, inp, c, lv, FALSE, tieUp)
    \/ /\ rs.pc = "loop" /\ ~InLoopOf(rs, inp)
       /\ rs_next = finish_run(rs, cfg, inp, c, "ok")

RECURSIVE AcceptedFrom(_, _, _, _)
\* the number of signals for symbol that Telegram accepted on day, among
\* the messages msgs
AcceptedFrom(tg, msgs, day, symbol) ==
    IF msgs = {} THEN 0
    ELSE LET m == CHOOSE x \in msgs : TRUE
         IN  (IF m.day = day /\ m.key[1] = symbol THEN tg[m] ELSE 0)
             + AcceptedFrom(tg, msgs \ {m}, day, symbol)

\* C24: on every calendar day at most 5 signals are sent for each pair, over
\* any sequence of scans
AtMostFivePerPairPerDay ==
    \A day \in 0..now, k \in DOMAIN SCAN_PAIRS :
        AcceptedFrom(telegram, DOMAIN telegram, day, SCAN_PAIRS[k]) <= MAX_SIGNALS_PER_DAY

\* C24 witness: 5 signals have been sent for the first pair today, after 5
\* were sent for it yesterday, and a later scan has passed the first pair
FirstPairAtLimit ==
    /\ scanner.pc = 2 /\ now > 0
    /\ CountOn(scanner.daily_count, now, SCAN_PAIRS[1]) = MAX_SIGNALS_PER_DAY
    /\ AcceptedFrom(telegram, DOMAIN telegram, now, SCAN_PAIRS[1]) = MAX_SIGNALS_PER_DAY
    /\ AcceptedFrom(telegram, DOMAIN telegram, now - 1, SCAN_PAIRS[1]) = MAX_SIGNALS_PER_DAY

\* C25: no signal with the same symbol, direction and entry rounded to 3
\* decimals is sent twice on one calendar day, over any sequence of scans
NoDuplicateOnOneDay ==
    \A m \in DOMAIN telegram : telegram[m] <= 1

\* C25 witness: a signal sent yesterday has been sent again today, and a
\* signal sent today at one price is on record while the same pair is
\* scanned again
SentAgainNextDay ==
    /\ now > 0 /\ scanner.pc = 1
    /\ \E key \in SentOn(scanner.sent_signals, now) :
        /\ [day |-> now, key |-> key] \in DOMAIN telegram
        /\ [day |-> now - 1, key |-> key] \in DOMAIN telegram

\* C26: where the take-profit is not tightened to a level, its distance from
\* the entry is the stop-loss distance times the minimum R:R of the
\* configured risk level (2.0, 1.5, 1.0), to the rounding of the price,
\* with and without an explicit risk percentage
TakeProfitAtLevelRatio ==
    (/\ setup.kind = "setup" /\ ~setup.tightened
     /\ request.risk_level \in RiskLevelNames) =>
        Abs(2 * Abs(setup.take_profit - setup.entry)
            - Abs(setup.entry - setup.stop_loss) * RISK_LEVELS[request.risk_level].rr2) <= 1

\* a candle after the strong move that formed the block ob has traded
\* below the low of a bullish block, or above the high of a bearish one
TradedThrough(candles, ob) ==
    \E j \in ob.index + 3 .. Len(candles) :
        IF ob.type = "BULLISH" THEN candles[j].low < ob.low
        ELSE candles[j].high > ob.high

\* C27: an order block that price has traded through after its formation is
\* not returned as valid, on that window or on any longer one, wherever the
\* latest close lies
TradedThroughNeverValid ==
    result.kind = "order_blocks" =>
        \A k \in 1 .. Len(result.blocks) : ~TradedThrough(call.candles, result.blocks[k])

\* the bins of the window of the last call, and the bin whose centre is price
WindowBins ==
    bins_of(call.candles, price_min(call.candles, Len(call.candles)),
            price_max(call.candles, Len(call.candles)))

BinAt(price) ==
    CHOOSE i \in 0 .. num_bins - 1 :
        \E t \in BOOLEAN :
            bin_price(price_min(call.candles, Len(call.candles)),
                      price_max(call.candles, Len(call.candles)), i, t) = price

HoldsValueArea(bins, a, b) ==
    10 * bins_sum(bins, a, b) >= value_area_tenths * bins_sum(bins, 0, num_bins - 1)

SmallestAround(bins, poc, left, right) ==
    /\ left <= poc /\ poc <= right
    /\ HoldsValueArea(bins, left, right)
    /\ \A a \in 0 .. poc, b \in poc .. num_bins - 1 :
           HoldsValueArea(bins, a, b) => b - a >= right - left

\* C28: the value area of a volume profile runs from val to vah with
\* val <= poc <= vah, its bins contain the POC bin and hold at least 70% of
\* the total volume, and no contiguous range of fewer bins that contains the
\* POC bin holds 70% of the total volume
ValueAreaSmallest ==
    (result.kind = "volume_profile" /\ result.profile # None) =>
        /\ Val(result.profile).val <= Val(result.profile).poc
        /\ Val(result.profile).poc <= Val(result.profile).vah
        /\ SmallestAround(WindowBins, BinAt(Val(result.profile).poc),
                          BinAt(Val(result.profile).val), BinAt(Val(result.profile).vah))

\* C29: every trade record with exit_reason TP_HIT has a PnL that is not
\* negative, and every trade record with exit_reason SL_HIT has a PnL that is
\* not positive
HitSideMatchesPnl ==
    \A k \in 1 .. Len(run.trades) :
        /\ run.trades[k].exit_reason = "TP_HIT" => run.trades[k].pnl >= 0
        /\ run.trades[k].exit_reason = "SL_HIT" => run.trades[k].pnl <= 0

HitExit(trade) == trade.exit_reason \in {"SL_HIT", "TP_HIT"}

\* C30: the trades of a run follow each other in candle index: a trade closed
\* by SL_HIT or TP_HIT exits on a later candle than the one it was opened on,
\* and every position, closed or still open, was opened on a later candle
\* than the one on which the trade before it exited
StrictlySequential ==
    /\ \A k \in 1 .. Len(run.trades) :
        /\ HitExit(run.trades[k]) => run.trades[k].exit_time > run.trades[k].entry_time
        /\ k > 1 => run.trades[k].entry_time > run.trades[k - 1].exit_time
    /\ (/\ run.open_position # NoPosition
        /\ Len(run.trades) > 0
        /\ HitExit(LastTrade(run)))
       => run.open_position.entry_time > LastTrade(run).exit_time

\* C30 witness: a position closed by SL or TP on the candle after its entry,
\* and the next position opened on the candle after that exit
ReentryOnNextCandle ==
    /\ run.pc = "loop" /\ Len(run.trades) = 1
    /\ HitExit(run.trades[1])
    /\ run.trades[1].exit_time = run.trades[1].entry_time + 1
    /\ run.open_position # NoPosition
    /\ run.open_position.entry_time = run.trades[1].exit_time + 1

====
